---- MODULE Spec2Model ----
(***************************************************************************)
(* A model of coder/labeler: the inference pipeline served by              *)
(* Webhook.Infer (webhook handler file, src/unnamed/part_010) together     *)
(* with the prompt builder aiContext.Request (src/unnamed/part_001), the   *)
(* versions that cmd/labeler/main.go wires into the running service.       *)
(*                                                                         *)
(* Several specifications share the module:                                *)
(*   Spec         one Infer call, from the fetches to the returned labels  *)
(*   SpecRequest  the constructMsgs loop of aiContext.Request, one step    *)
(*                per pass of the loop (SpecRequestLive: with fairness)    *)
(*   SpecCache    concurrent Infer calls over the two tlru caches          *)
(*   SpecHistory  ghapi.Page over a large repository, one get per step     *)
(*   SpecWebhook  Webhook.webhook around one Infer call                    *)
(*   SpecSearch   Search.search, one step per remote call                  *)
(*   SpecBatch    the test command: goroutines behind its semaphore        *)
(*   SpecPage     one call of ghapi.Page, for any total and any limit      *)
(*   SpecIndexer  Indexer.Run: index passes, ticks and cancellation        *)
(*   SpecIndexLoop  getUpdatedAts and the insert loop of indexInstall      *)
(*                                                                         *)
(* Durations are in milliseconds, token counts in tokens.                  *)
(***************************************************************************)
EXTENDS Integers, Sequences, FiniteSets, TLC

VARIABLES
    github,           \* what the issue/label source serves for the repository
    req,              \* the InferRequest: Issue, TestMode
    pc,               \* position of the Infer call
    aiContext,        \* the aiContext built by Infer: allLabels, lastIssues, targetIssue
    ret,              \* the retry.Retrier created at the retryAI label
    ctxCancelled,     \* ctx.Done() is closed
    calls,            \* CreateChatCompletion calls made so far
    waits,            \* the delay of every ret.Wait of the call, in order
    resp,             \* the last answer of the completion provider
    result,           \* what Infer returned: err, SetLabels, DisabledLabels
    cancelAt,         \* value of calls when ctx was cancelled inside ret.Wait, else -1
    request,          \* the messages of the last ChatCompletionRequest built by Request
    rpc,              \* position inside aiContext.Request (SpecRequest)
    visited,          \* len(c.lastIssues) and the token count at every pass of constructMsgs
    source,           \* the issue/label source: what GitHub holds for every repository
    cache,            \* recentIssuesCache and repoLabelsCache, by repoAddr
    mu,               \* the Infer call inside Do of each cache, 0 when none
    now,              \* the clock, in milliseconds
    infers,           \* the concurrent Infer calls: position, request, locals
    fetches,          \* calls made to the source, by repository and kind, and the
                      \* labels it served with the target issue
    doLocks,          \* whether tlru's Do holds the cache's mutex while fn runs
    hook,             \* the webhook request: its event, position, calls made, response
    search,           \* the search request: parameters, position, calls made, response
    batch,            \* the test command: its semaphore and the goroutines it started
    indexer,          \* the indexer: its position, GitHub's issues, the issues table
    paging            \* one call of ghapi.Page: its arguments, position, gets made, return

\* the variables of one Infer call and of Request
inferVars == <<github, req, pc, aiContext, ret, ctxCancelled, calls, waits, resp,
               result, cancelAt, request, rpc, visited>>

\* the variables of the service around concurrent Infer calls
svcVars == <<source, cache, mu, now, infers, fetches, doLocks, hook, search, batch, indexer, paging>>

\* the variables of the caches and of the Infer calls that share them
cacheVars == <<source, cache, mu, now, infers, fetches, doLocks>>

\* the variables of the test command, of the indexer and of a call of Page
jobVars == <<batch, indexer, paging>>

vars == <<github, req, pc, aiContext, ret, ctxCancelled, calls, waits, resp,
          result, cancelAt, request, rpc, visited,
          source, cache, mu, now, infers, fetches, doLocks, hook, search,
          batch, indexer, paging>>

(***************************************************************************)
(* Bounds of the model.                                                    *)
(***************************************************************************)
MaxRaw == 2        \* longest label list the completion provider returns
MaxCalls == 3      \* the provider answers the MaxCalls-th call non-transiently
MaxHist == 20      \* longest history handed to Request in SpecRequest

Min(a, b) == IF a < b THEN a ELSE b
Max(a, b) == IF a > b THEN a ELSE b

(***************************************************************************)
(* Labels and the repository configuration.                                *)
(* A description is a sequence of phrases; strings.Contains(desc, s) is    *)
(* the occurrence of the phrase s in it.  A regular expression of the      *)
(* exclude list is the set of label names it matches.                      *)
(***************************************************************************)
magicDisableString == "Only humans may set this"

Contains(desc, s) == \E i \in DOMAIN desc : desc[i] = s

Label(n, d) == [name |-> n, desc |-> d]

Plain == <<"a label">>
Human == <<"planning.", "Only humans may set this", "label">>

RawNames == {"bug", "roadmap", "critical", "typo-nonexistent"}

\* (repoLabels, config) pairs the label source and .github/labeler.yml can hold
RepoChoices ==
    { [labels |-> <<Label("bug", Plain), Label("roadmap", Human)>>,
       config |-> [Exclude |-> << >>]],
      [labels |-> <<Label("bug", Plain)>>,
       config |-> [Exclude |-> << >>]],
      [labels |-> <<Label("bug", Plain), Label("roadmap", Plain), Label("critical", Plain)>>,
       config |-> [Exclude |-> <<{"roadmap"}>>]],
      [labels |-> <<Label("bug", Plain), Label("roadmap", Human), Label("critical", Plain)>>,
       config |-> [Exclude |-> <<{"typo-nonexistent"}, {"critical", "roadmap"}>>]],
      [labels |-> << >>,
       config |-> [Exclude |-> <<{"bug"}>>]] }

\* repoConfig.checkLabel: false when any exclude expression matches the name
checkLabel(c, label) ==
    ~ \E i \in DOMAIN c.Exclude : label \in c.Exclude[i]

Items(slice) == { slice[i] : i \in DOMAIN slice }

\* the slice with every item that occurred before left out
RECURSIVE Dedup(_)
Dedup(slice) ==
    IF slice = << >> THEN << >>
    ELSE IF \E i \in 1..(Len(slice) - 1) : slice[i] = slice[Len(slice)]
         THEN Dedup(SubSeq(slice, 1, Len(slice) - 1))
         ELSE Append(Dedup(SubSeq(slice, 1, Len(slice) - 1)), slice[Len(slice)])

\* faulty variant: appends an accepted item once only
filterSlice_Dedup(slice, accepted) ==
    Dedup(SelectSeq(slice, LAMBDA item : item \in accepted))

\* filterSlice, its predicate given as the set of the items it accepts
filterSlice(slice, accepted) == SelectSeq(slice, LAMBDA item : item \in accepted)

\* faulty variant: disables by the sentinel phrase alone
disabledLabels_MagicOnly(repoLabels, config) ==
    { repoLabels[i].name : i \in
        { j \in DOMAIN repoLabels : Contains(repoLabels[j].desc, magicDisableString) } }

\* the disabledLabels map of Infer, as the set of its keys
disabledLabels(repoLabels, config) ==
    { repoLabels[i].name : i \in
        { j \in DOMAIN repoLabels :
            \/ Contains(repoLabels[j].desc, magicDisableString)
            \/ ~ checkLabel(config, repoLabels[j].name) } }

\* the repoLabelsMap of Infer, as the set of its keys
repoLabelsMap(repoLabels) == { repoLabels[i].name : i \in DOMAIN repoLabels }

\* faulty variant: removes the first disabled label alone
removeDisabled_FirstOnly(setLabels, repoLabels, config) ==
    IF \A i \in DOMAIN setLabels : setLabels[i] \notin disabledLabels(repoLabels, config)
    THEN setLabels
    ELSE [i \in 1..(Len(setLabels) - 1) |->
            IF \A j \in 1..i : setLabels[j] \notin disabledLabels(repoLabels, config)
            THEN setLabels[i] ELSE setLabels[i + 1]]

\* first filterSlice of Infer: remove any labels that are disabled
removeDisabled(setLabels, repoLabels, config) ==
    filterSlice(setLabels,
                { label \in Items(setLabels) : label \notin disabledLabels(repoLabels, config) })

\* faulty variant: keeps every label the repository does not define
removeUndefined_Keep(newLabels, repoLabels) == newLabels

\* second filterSlice of Infer: remove any labels that are not defined by the repo
removeUndefined(newLabels, repoLabels) ==
    filterSlice(newLabels,
                { label \in Items(newLabels) : label \in repoLabelsMap(repoLabels) })


(***************************************************************************)
(* Issues and the prompt.                                                  *)
(* An issue carries the token count of its title and truncated body as     *)
(* size; issueToText adds the markers and the label line.                  *)
(***************************************************************************)
Issue(n, t, ls, sz) == [number |-> n, createdAt |-> t, labels |-> ls, size |-> sz]

RECURSIVE SumTokens(_)
SumTokens(s) == IF s = << >> THEN 0 ELSE Head(s).tokens + SumTokens(Tail(s))

InstructionTokens == 80     \* the instruction block of the first system message
BlobHeaderTokens == 12      \* "Here are some examples of past issues and their labels:"
MarkerTokens == 20          \* "=== ISSUE n ===", author line, "=== END ISSUE n ==="
modelTokenLimit == 128000

issueToText(issue) ==
    [number |-> issue.number, labels |-> issue.labels,
     tokens |-> MarkerTokens + Len(issue.labels) + issue.size]

labelsDescription(allLabels) ==
    [i \in DOMAIN allLabels |->
        [name |-> allLabels[i].name, desc |-> allLabels[i].desc,
         tokens |-> 2 + Len(allLabels[i].desc)]]

pastIssuesBlob(lastIssues) == [i \in DOMAIN lastIssues |-> issueToText(lastIssues[i])]

\* the four messages one pass of constructMsgs appends
constructMsgs(c) ==
    << [role |-> "system", text |-> << >>, tokens |-> InstructionTokens],
       [role |-> "system", text |-> labelsDescription(c.allLabels),
        tokens |-> 4 + SumTokens(labelsDescription(c.allLabels))],
       [role |-> "system", text |-> pastIssuesBlob(c.lastIssues),
        tokens |-> BlobHeaderTokens + SumTokens(pastIssuesBlob(c.lastIssues))],
       [role |-> "user", text |-> <<issueToText(c.targetIssue)>>,
        tokens |-> issueToText(c.targetIssue).tokens] >>

\* countTokens: the encoded length of every message content (no message of
\* Request carries tool calls)
countTokens(msgs) == SumTokens(msgs)

\* faulty variant: halves the history whenever more than one issue is left
overLimit_Always(c) == Len(c.lastIssues) > 1

\* the condition of the pruning branch of Request
overLimit(c) ==
    countTokens(constructMsgs(c)) > modelTokenLimit /\ Len(c.lastIssues) > 1

\* faulty variant: takes one issue off the history at a time
pruneIssues_DropOne(c) ==
    [c EXCEPT !.lastIssues = SubSeq(c.lastIssues, 1, Len(c.lastIssues) - 1)]

\* c.lastIssues = c.lastIssues[:len(c.lastIssues)/2]
pruneIssues(c) ==
    [c EXCEPT !.lastIssues = SubSeq(c.lastIssues, 1, Len(c.lastIssues) \div 2)]

\* Request run to its return: the pruned context and the messages of the request
RECURSIVE Request(_)
Request(c) ==
    IF overLimit(c) THEN Request(pruneIssues(c))
    ELSE [c |-> c, Messages |-> constructMsgs(c)]

\* filterIssues(lastIssues, number != target number)
filterIssues(slice, number) == SelectSeq(slice, LAMBDA i : i.number # number)

\* faulty variant: the result is built in the backing array of the argument
filterIssuesArray_InPlace(slice, res) ==
    [array |-> res \o SubSeq(slice, Len(res) + 1, Len(slice)), shared |-> TRUE]

\* the backing array of the argument after filterIssues returned res: the
\* result is appended to a nil slice, so the array is as it was and the
\* result shares nothing with it
filterIssuesArray(slice, res) == [array |-> slice, shared |-> FALSE]

\* the backing array of the argument after sort.Slice has sorted the result
\* of filterIssues in place
arrayAfterSort(alloc, sorted) ==
    IF alloc.shared
    THEN sorted \o SubSeq(alloc.array, Len(sorted) + 1, Len(alloc.array))
    ELSE alloc.array

\* faulty variant: leaves the target's labels in test mode
testModeTarget_Keep(targetIssue, testMode) == targetIssue

\* if req.TestMode { targetIssue.Labels = nil }
testModeTarget(targetIssue, testMode) ==
    IF testMode THEN [targetIssue EXCEPT !.labels = << >>] ELSE targetIssue

\* every ordering of a slice
Orderings(slice) == { [i \in DOMAIN slice |-> slice[p[i]]] : p \in Permutations(DOMAIN slice) }

\* the items of the slice created before, at and after the time t
Before(slice, t) == SelectSeq(slice, LAMBDA i : i.createdAt < t)
At(slice, t) == SelectSeq(slice, LAMBDA i : i.createdAt = t)
After(slice, t) == SelectSeq(slice, LAMBDA i : i.createdAt > t)

\* sort.Slice by created at: every ordering the unstable sort can leave.
\* The items created before the middle item's time come first, sorted, then
\* the items of that time in any order, then the later items, sorted.
RECURSIVE sortByCreatedAt(_)
sortByCreatedAt(slice) ==
    IF slice = << >> THEN { << >> }
    ELSE { b \o e \o a :
             b \in sortByCreatedAt(Before(slice, slice[(Len(slice) + 1) \div 2].createdAt)),
             e \in Orderings(At(slice, slice[(Len(slice) + 1) \div 2].createdAt)),
             a \in sortByCreatedAt(After(slice, slice[(Len(slice) + 1) \div 2].createdAt)) }


(***************************************************************************)
(* The retrier of github.com/coder/retry (go.mod line 113, v1.5.1), used   *)
(* only through retry.New and Wait: New starts with Delay 0, Wait grows    *)
(* Delay by the rate (the golden ratio), caps it at Ceil, sleeps for it    *)
(* unless ctx is done, and lifts it to Floor once the sleep is over.       *)
(***************************************************************************)
retryFloor == 1000
retryCeil == 10000

NoRetrier == [Delay |-> 0, Floor |-> 0, Ceil |-> 0]

retryNew(floor, ceil) == [Delay |-> 0, Floor |-> floor, Ceil |-> ceil]

\* the delay Wait sleeps for
WaitDelay(r) == Min((r.Delay * 1618) \div 1000, r.Ceil)

\* the retrier after a Wait whose sleep ran to its end
WaitOver(r) == [r EXCEPT !.Delay = Max(WaitDelay(r), r.Floor)]

(***************************************************************************)
(* The completion provider's answers.                                      *)
(***************************************************************************)
RECURSIVE SeqsUpTo(_, _)
SeqsUpTo(S, n) ==
    IF n = 0 THEN { << >> }
    ELSE SeqsUpTo(S, n - 1) \cup
         { Append(s, x) : s \in { t \in SeqsUpTo(S, n - 1) : Len(t) = n - 1 }, x \in S }

\* the content of a choice: a JSON object whose labels field is a list of
\* strings, one string of space-delimited names, or missing; or no JSON at all
Contents ==
    [type : {"list"}, items : SeqsUpTo(RawNames, MaxRaw)]
    \cup [type : {"string"}, items : {<<"bug", "critical">>, <<"bug">>}]
    \cup [type : {"absent", "invalid"}, items : { << >> }]

Choice(content, n) == [Content |-> content, ToolCalls |-> n]

FillerContent == [type |-> "list", items |-> <<"bug">>]

Responses ==
    { [kind |-> "ok", Choices |-> <<Choice(c, n)>>] : c \in Contents, n \in 0..2 }
    \cup { [kind |-> "ok", Choices |-> << >>],
           [kind |-> "ok", Choices |-> <<Choice(FillerContent, 1), Choice(FillerContent, 1)>>] }
    \cup { [kind |-> "err", err |-> [type |-> "APIError", HTTPStatusCode |-> st]] :
             st \in {400, 404, 429, 500, 503} }
    \cup { [kind |-> "err", err |-> [type |-> "other", HTTPStatusCode |-> 0]] }

NoResp == [kind |-> "none"]

\* json.Unmarshal([]byte(content), &setLabels), setLabels.Labels a []string
Unmarshal(content) ==
    CASE content.type = "list"   -> [err |-> FALSE, Labels |-> content.items]
      [] content.type = "absent" -> [err |-> FALSE, Labels |-> << >>]
      [] content.type = "string" -> [err |-> TRUE, Labels |-> << >>]
      [] OTHER                   -> [err |-> TRUE, Labels |-> << >>]

\* faulty variant: retries after every provider error that is an APIError
isTransient_AnyStatus(err) == err.type = "APIError"

\* faulty variant: gives up once two completion calls were made
isTransient_MaxAttempts(err) ==
    /\ err.type = "APIError"
    /\ (err.HTTPStatusCode >= 500 \/ err.HTTPStatusCode = 429)
    /\ calls < 2

\* errors.As(err, &aiErr) && (aiErr.HTTPStatusCode >= 500 || aiErr.HTTPStatusCode == 429)
isTransient(err) ==
    /\ err.type = "APIError"
    /\ (err.HTTPStatusCode >= 500 \/ err.HTTPStatusCode = 429)

Failed(e) == [err |-> e, SetLabels |-> << >>, DisabledLabels |-> {}]

NoResult == Failed("pending")

\* the InferResponse built from the parsed labels
InferResponse(setLabels, repoLabels, config) ==
    [err |-> "none",
     SetLabels |-> removeUndefined(removeDisabled(setLabels, repoLabels, config), repoLabels),
     DisabledLabels |-> disabledLabels(repoLabels, config)]

\* Infer from the successful completion answer r to its return
handleCompletion(r) ==
    IF Len(r.Choices) # 1 THEN Failed("expected one choice")
    ELSE IF Unmarshal(r.Choices[1].Content).err THEN Failed("unmarshal setLabels")
    ELSE InferResponse(Unmarshal(r.Choices[1].Content).Labels,
                       aiContext.allLabels, github.config)


(***************************************************************************)
(* Specification Spec: one call of Webhook.Infer.                          *)
(***************************************************************************)
TargetIssue == Issue(2, 20, <<"bug">>, 1000)

\* what ListByRepo serves, newest first, pull requests already removed
IssueChoices ==
    { << >>,
      <<Issue(3, 30, <<"bug">>, 1000), Issue(2, 20, <<"bug">>, 1000),
        Issue(1, 10, <<"roadmap">>, 1000)>>,
      <<Issue(5, 30, <<"bug">>, 70000), Issue(4, 30, << >>, 70000),
        Issue(1, 10, <<"critical">>, 70000)>> }

\* no webhook request is being served
NoHook == [header |-> "", Action |-> "", at |-> "none", infers |-> 0, applies |-> 0,
           applied |-> << >>, Status |-> 0, logged |-> 0]

\* no search request is being served
NoSearch == [at |-> "none"]

\* the test command does not run
NoBatch == [at |-> "none"]

\* the indexer does not run
NoIndexer == [at |-> "none"]

\* no call of Page is followed
NoPaging == [at |-> "none"]

\* no Infer call but the modelled one runs: the service variables are at rest
ServiceIdle ==
    /\ source = << >>
    /\ cache = << >>
    /\ mu = << >>
    /\ now = 0
    /\ infers = << >>
    /\ fetches = << >>
    /\ doLocks = FALSE
    /\ hook = NoHook
    /\ search = NoSearch
    /\ batch = NoBatch
    /\ indexer = NoIndexer
    /\ paging = NoPaging

NoContext == [allLabels |-> << >>, lastIssues |-> << >>, targetIssue |-> Issue(0, 0, << >>, 0)]

Init ==
    /\ github \in { [issues |-> is, labels |-> rc.labels, config |-> rc.config,
                     target |-> TargetIssue] : is \in IssueChoices, rc \in RepoChoices }
    /\ req \in [Issue : {TargetIssue.number}, TestMode : BOOLEAN]
    /\ pc = "start"
    /\ aiContext = NoContext
    /\ ret = NoRetrier
    /\ ctxCancelled = FALSE
    /\ calls = 0
    /\ waits = << >>
    /\ resp = NoResp
    /\ result = NoResult
    /\ cancelAt = -1
    /\ request = << >>
    /\ rpc = "unused"
    /\ visited = << >>
    /\ ServiceIdle

Return(r) ==
    /\ result' = r
    /\ pc' = "done"

\* a fetch before the prompt fails: installation config, repo config, issue
\* list, label list or target issue
InferFetchFails ==
    /\ pc = "start"
    /\ \E e \in {"get installation config", "get repo config", "list issues",
                 "list labels", "get target issue"} : Return(Failed(e))
    /\ UNCHANGED <<svcVars, github, req, aiContext, ret, ctxCancelled, calls, waits, resp,
                   cancelAt, request, rpc, visited>>

\* the fetches succeed: the target is taken out of the list, the list is
\* sorted by creation time, test mode strips the target's labels
InferBuildContext ==
    /\ pc = "start"
    /\ ~ ctxCancelled
    /\ \E sorted \in sortByCreatedAt(filterIssues(github.issues, github.target.number)) :
         aiContext' = [allLabels |-> github.labels,
                       lastIssues |-> sorted,
                       targetIssue |-> testModeTarget(github.target, req.TestMode)]
    /\ pc' = "retryAI"
    /\ UNCHANGED <<svcVars, github, req, ret, ctxCancelled, calls, waits, resp, result,
                   cancelAt, request, rpc, visited>>

\* the retryAI label: a retrier is made, the request is built (Request prunes
\* aiContext.lastIssues in place) and the completion call is sent
InferCallAI ==
    /\ pc = "retryAI"
    /\ ret' = retryNew(retryFloor, retryCeil)
    /\ aiContext' = Request(aiContext).c
    /\ request' = Request(aiContext).Messages
    /\ calls' = calls + 1
    /\ pc' = IF ctxCancelled THEN "cancelledCall" ELSE "inflight"
    /\ UNCHANGED <<svcVars, github, req, ctxCancelled, waits, resp, result, cancelAt, rpc, visited>>

\* a completion call made with ctx already done fails with the context's error
InferCallCancelled ==
    /\ pc = "cancelledCall"
    /\ resp' = [kind |-> "err", err |-> [type |-> "other", HTTPStatusCode |-> 0]]
    /\ Return(Failed("create chat completion"))
    /\ UNCHANGED <<svcVars, github, req, aiContext, ret, ctxCancelled, calls, waits, cancelAt,
                   request, rpc, visited>>

\* the completion call fails: a transient error enters ret.Wait(ctx), any
\* other error is returned.  A Wait that finds ctx done returns false; with a
\* delay of zero the timer is ready as well and the select may take either.
InferCompletionError ==
    /\ pc = "inflight"
    /\ \E r \in Responses :
        /\ r.kind = "err"
        /\ (r.err.type = "APIError") => calls < MaxCalls
        /\ resp' = r
        /\ IF isTransient(r.err)
           THEN /\ waits' = Append(waits, WaitDelay(ret))
                /\ result' = result
                /\ \/ /\ ~ ctxCancelled
                      /\ pc' = "wait"
                      /\ ret' = ret
                   \/ /\ ctxCancelled
                      /\ pc' = "waitFalse"
                      /\ ret' = ret
                   \/ /\ ctxCancelled
                      /\ WaitDelay(ret) = 0
                      /\ pc' = "retryAI"
                      /\ ret' = WaitOver(ret)
           ELSE /\ Return(Failed("create chat completion"))
                /\ UNCHANGED <<waits, ret>>
    /\ UNCHANGED <<svcVars, github, req, aiContext, ctxCancelled, calls, cancelAt, request,
                   rpc, visited>>

\* the completion call succeeds: the answer is validated, parsed and
\* sanitized, and Infer returns
InferCompletionOK ==
    /\ pc = "inflight"
    /\ \E r \in Responses :
        /\ r.kind = "ok"
        /\ resp' = r
        /\ Return(handleCompletion(r))
    /\ UNCHANGED <<svcVars, github, req, aiContext, ret, ctxCancelled, calls, waits, cancelAt,
                   request, rpc, visited>>

\* the sleep of ret.Wait runs to its end: Wait returns true, goto retryAI
InferWaitElapsed ==
    /\ pc = "wait"
    /\ ret' = WaitOver(ret)
    /\ pc' = "retryAI"
    /\ UNCHANGED <<svcVars, github, req, aiContext, ctxCancelled, calls, waits, resp, result,
                   cancelAt, request, rpc, visited>>

\* ret.Wait returned false: Infer returns the completion error
InferWaitFalse ==
    /\ pc = "waitFalse"
    /\ Return(Failed("create chat completion"))
    /\ UNCHANGED <<svcVars, github, req, aiContext, ret, ctxCancelled, calls, waits, resp,
                   cancelAt, request, rpc, visited>>

\* faulty variant: sleeps through the cancellation
waitOnDone_Sleep(p) == p

\* the select of ret.Wait on ctx.Done(): a blocked Wait takes the Done case
waitOnDone(p) == IF p = "wait" THEN "waitFalse" ELSE p

\* the caller cancels ctx
Cancel ==
    /\ pc # "done"
    /\ ~ ctxCancelled
    /\ ctxCancelled' = TRUE
    /\ pc' = waitOnDone(pc)
    /\ cancelAt' = IF pc = "wait" THEN calls ELSE cancelAt
    /\ UNCHANGED <<svcVars, github, req, aiContext, ret, calls, waits, resp, result, request,
                   rpc, visited>>

Next ==
    \/ InferFetchFails
    \/ InferBuildContext
    \/ InferCallAI
    \/ InferCallCancelled
    \/ InferCompletionError
    \/ InferCompletionOK
    \/ InferWaitElapsed
    \/ InferWaitFalse
    \/ Cancel

Spec == Init /\ [][Next]_vars


(***************************************************************************)
(* Claims about Infer, checked under Spec.                                 *)
(***************************************************************************)
Returned == pc = "done"
Succeeded == pc = "done" /\ result.err = "none"
OneChoice == resp.kind = "ok" /\ Len(resp.Choices) = 1
RepoNames == { github.labels[j].name : j \in DOMAIN github.labels }
InSeq(x, s) == \E i \in DOMAIN s : s[i] = x

\* a repository label is disabled, as the configuration section states it
IsDisabled(name) ==
    \E j \in DOMAIN github.labels :
        /\ github.labels[j].name = name
        /\ \/ Contains(github.labels[j].desc, "Only humans may set this")
           \/ \E i \in DOMAIN github.config.Exclude : name \in github.config.Exclude[i]

TransientStatus(e) ==
    e.type = "APIError" /\ (e.HTTPStatusCode >= 500 \/ e.HTTPStatusCode = 429)

\* C1: every label of a successful Infer call's SetLabels is the name of a
\* label of the repository label list of that call; a label list of the model
\* holding a name the repository lacks still gives a successful call.
C1_SetLabelsInRepo ==
    /\ Succeeded => \A i \in DOMAIN result.SetLabels : result.SetLabels[i] \in RepoNames
    /\ (Returned /\ OneChoice /\ resp.Choices[1].Content.type = "list")
          => result.err = "none"

C1_Witness ==
    /\ Succeeded
    /\ resp.Choices[1].Content.items = <<"bug", "typo-nonexistent">>
    /\ RepoNames = {"bug"}
    /\ result.SetLabels = <<"bug">>

\* C2: no label that is disabled (sentinel phrase in the description, or name
\* matched by an exclusion expression) is in the SetLabels of a successful
\* Infer call, and DisabledLabels are exactly the disabled repository labels.
C2_NoDisabledLabel ==
    Succeeded =>
        /\ \A i \in DOMAIN result.SetLabels : ~ IsDisabled(result.SetLabels[i])
        /\ result.DisabledLabels = { n \in RepoNames : IsDisabled(n) }

C2_Witness ==
    /\ Succeeded
    /\ resp.Choices[1].Content.items = <<"bug", "roadmap">>
    /\ IsDisabled("roadmap")
    /\ result.SetLabels = <<"bug">>

C2_WitnessExclude ==
    /\ Succeeded
    /\ InSeq("critical", resp.Choices[1].Content.items)
    /\ \E i \in DOMAIN github.config.Exclude : "critical" \in github.config.Exclude[i]
    /\ ~ InSeq("critical", result.SetLabels)

C4_CancelEndsWait ==
    cancelAt >= 0 =>
        /\ calls = cancelAt
        /\ pc \in {"waitFalse", "done"}
        /\ Returned => result.err = "create chat completion"

C4_Witness ==
    /\ cancelAt >= 1
    /\ Returned
    /\ result.err = "create chat completion"

\* C5: the waits of one Infer call grow from one to the next until the cap
\* is reached, and none exceeds the cap.
C5_BackoffGrows ==
    /\ \A i \in DOMAIN waits : waits[i] <= retryCeil
    /\ \A i \in DOMAIN waits :
          i > 1 => (waits[i] > waits[i - 1] \/ waits[i - 1] = retryCeil)

\* C6: Infer returns after a completion call only on a success, on an error
\* that is not transient, or with ctx cancelled; a transient answer under a
\* live ctx never ends the call, whatever the number of calls made, and no
\* Infer with a cancelled ctx is left sleeping.
C6_NoAttemptLimit ==
    /\ (resp.kind = "err" /\ TransientStatus(resp.err) /\ ~ ctxCancelled) => ~ Returned
    /\ (resp.kind = "ok" \/ (resp.kind = "err" /\ ~ TransientStatus(resp.err))) => Returned
    /\ ctxCancelled => pc # "wait"

C6_Witness ==
    /\ calls = MaxCalls
    /\ Len(waits) = MaxCalls - 1
    /\ pc = "inflight"
    /\ ~ ctxCancelled

\* C7: a successful answer that has not exactly one choice, or whose choice
\* has not exactly one tool call, or whose payload is no JSON, makes Infer
\* return an error and no labels.
C7_MalformedAnswerFails ==
    ( /\ Returned
      /\ resp.kind = "ok"
      /\ \/ Len(resp.Choices) # 1
         \/ resp.Choices[1].ToolCalls # 1
         \/ resp.Choices[1].Content.type = "invalid" )
    => (result.err # "none" /\ result.SetLabels = << >>)

\* C8: labels returned as one space-delimited string give what the same
\* names returned as a list give.
C8_StringEncodingAccepted ==
    ( /\ Returned
      /\ OneChoice
      /\ resp.Choices[1].Content.type = "string" )
    => result = InferResponse(resp.Choices[1].Content.items, github.labels, github.config)


(***************************************************************************)
(* Specification SpecRequest: aiContext.Request on a history that Infer    *)
(* has sorted by creation time, one step per pass of constructMsgs.        *)
(***************************************************************************)
IssueSizes == {1000, 7000, 130000}

\* n issues created at 1..n, of size base each but the h-th, which is heavy
History(n, base, h) ==
    [i \in 1..n |-> Issue(100 + i, i, <<"bug">>, IF i = h THEN 130000 ELSE base)]

InitRequest ==
    /\ \E n \in 0..MaxHist, base \in IssueSizes :
         \E h \in 0..n :
            aiContext = [allLabels |-> <<Label("bug", Plain), Label("roadmap", Human)>>,
                         lastIssues |-> History(n, base, h),
                         targetIssue |-> TargetIssue]
    /\ github = [issues |-> aiContext.lastIssues, labels |-> aiContext.allLabels,
                 config |-> [Exclude |-> << >>], target |-> TargetIssue]
    /\ req = [Issue |-> TargetIssue.number, TestMode |-> FALSE]
    /\ pc = "retryAI"
    /\ ret = NoRetrier
    /\ ctxCancelled = FALSE
    /\ calls = 0
    /\ waits = << >>
    /\ resp = NoResp
    /\ result = NoResult
    /\ cancelAt = -1
    /\ request = << >>
    /\ rpc = "constructMsgs"
    /\ visited = << >>
    /\ ServiceIdle

Pass(c) == [len |-> Len(c.lastIssues), tokens |-> countTokens(constructMsgs(c))]

\* a pass of constructMsgs that ends in the pruning branch: goto constructMsgs
RequestPrune ==
    /\ rpc = "constructMsgs"
    /\ overLimit(aiContext)
    /\ visited' = Append(visited, Pass(aiContext))
    /\ aiContext' = pruneIssues(aiContext)
    /\ UNCHANGED <<svcVars, github, req, pc, ret, ctxCancelled, calls, waits, resp, result,
                   cancelAt, request, rpc>>

\* a pass of constructMsgs that ends in the return of the request
RequestReturn ==
    /\ rpc = "constructMsgs"
    /\ ~ overLimit(aiContext)
    /\ visited' = Append(visited, Pass(aiContext))
    /\ request' = constructMsgs(aiContext)
    /\ rpc' = "returned"
    /\ UNCHANGED <<svcVars, github, req, pc, aiContext, ret, ctxCancelled, calls, waits, resp,
                   result, cancelAt>>

NextRequest == RequestPrune \/ RequestReturn

SpecRequest == InitRequest /\ [][NextRequest]_vars

(***************************************************************************)
(* Claims about Request, checked under SpecRequest.                        *)
(***************************************************************************)
Lens == [i \in DOMAIN visited |-> visited[i].len]

\* C9: a pruning pass over n issues discards the floor(n/2) issues created
\* first and keeps the issues created after them.
C9_DropsOldestHalf ==
    [][ Len(aiContext'.lastIssues) < Len(aiContext.lastIssues)
          => aiContext'.lastIssues =
               SubSeq(aiContext.lastIssues, (Len(aiContext.lastIssues) \div 2) + 1,
                      Len(aiContext.lastIssues)) ]_vars

\* C10: the returned messages are within the token ceiling or at most one
\* history issue is left; every pass that shortened the history was over the
\* ceiling and left half of it, rounded down; twenty issues that are each
\* over the ceiling give the lengths 20, 10, 5, 2, 1.
C10_WithinBudgetOrOneLeft ==
    /\ rpc = "returned" =>
          \/ countTokens(request) <= modelTokenLimit
          \/ Len(aiContext.lastIssues) <= 1
    /\ \A i \in DOMAIN visited :
          i < Len(visited) =>
             /\ visited[i].tokens > modelTokenLimit
             /\ visited[i + 1].len = visited[i].len \div 2
    /\ ( /\ rpc = "returned"
         /\ Len(github.issues) = 20
         /\ \A i \in DOMAIN github.issues : github.issues[i].size > modelTokenLimit )
       => Lens = <<20, 10, 5, 2, 1>>

C10_Witness ==
    /\ rpc = "returned"
    /\ Lens = <<20, 10, 5, 2, 1>>
    /\ countTokens(request) > modelTokenLimit

C10_WitnessWithin ==
    /\ rpc = "returned"
    /\ Lens = <<20, 10>>
    /\ countTokens(request) <= modelTokenLimit

\* the scheduler runs Request to its return: no pass of constructMsgs blocks
SpecRequestLive == SpecRequest /\ WF_vars(NextRequest)

\* the smallest k with 2^k >= n
RECURSIVE CeilLog2From(_, _, _)
CeilLog2From(n, k, p) == IF p >= n THEN k ELSE CeilLog2From(n, k + 1, 2 * p)

CeilLog2(n) == CeilLog2From(n, 0, 1)

\* passes of constructMsgs that ended in the pruning branch
Rebuilds == IF rpc = "returned" THEN Len(visited) - 1 ELSE Len(visited)

\* C11: for a history of n >= 1 issues of any token cost, Request returns,
\* no more than ceil(log2(n)) passes end in the pruning branch, and every such
\* pass starts with more than one issue and leaves strictly fewer.
C11_PruningTerminates ==
    /\ [] ( Len(github.issues) >= 1 => Rebuilds <= CeilLog2(Len(github.issues)) )
    /\ [] ( \A i \in DOMAIN visited :
              i < Len(visited) =>
                 /\ visited[i].len > 1
                 /\ visited[i + 1].len < visited[i].len )
    /\ <> (rpc = "returned")

C11_Witness ==
    /\ rpc = "returned"
    /\ Len(github.issues) = 16
    /\ Lens = <<16, 8, 4, 2, 1>>
    /\ Rebuilds = CeilLog2(16)


(***************************************************************************)
(* The issue/label source and the repository caches.  The Infer calls of   *)
(* the model are all for one repository, one key of each cache.            *)
(* The source serves a repository's issues newest first, pull requests     *)
(* among them, in pages of PerPage items.  recentIssuesCache and           *)
(* repoLabelsCache are tlru caches (github.com/ammario/tlru, go.mod line   *)
(* 66) used only through Do(key, fn, ttl): a value that is present and not *)
(* expired is returned, else fn runs, its error is returned with nothing   *)
(* stored, its value is stored for ttl.  Whether Do keeps the cache's      *)
(* mutex while fn runs is not fixed by this repository: doLocks covers     *)
(* both.  The lists stay far below the caches' cost limit of 4096, so no   *)
(* entry is evicted before it expires.                                     *)
(***************************************************************************)
MaxInfers == 2      \* Infer calls that run concurrently

Repos == {"coder/labeler"}

cacheTTL == 60000
Tick == cacheTTL              \* the step of the clock: one time-to-live
LastTick == cacheTTL          \* the clock stops one time-to-live after the start

PerPage == 100
issuesLimit == 100
labelsLimit == 300

SourceItem(issue, pr) == [issue |-> issue, pr |-> pr]

\* OnlyTrueIssues: the items that are no pull request, in their order
OnlyTrueIssues(slice) ==
    [i \in DOMAIN SelectSeq(slice, LAMBDA item : ~ item.pr) |->
        SelectSeq(slice, LAMBDA item : ~ item.pr)[i].issue]

\* the pages the source serves for a list, PerPage items each, at least one
RECURSIVE PagesOf(_)
PagesOf(list) ==
    IF Len(list) <= PerPage THEN <<list>>
    ELSE <<SubSeq(list, 1, PerPage)>> \o PagesOf(SubSeq(list, PerPage + 1, Len(list)))

\* faulty variant: appends the whole page
PageStep_NoLimit(items, all, n) == all \o items

\* one pass of the loop of Page: the items of a page are appended until all
\* holds n of them
PageStep(items, all, n) == all \o SubSeq(items, 1, Min(Len(items), n - Len(all)))

\* the loop of Page from page p on, all holding fewer than n items
RECURSIVE PageLoop(_, _, _, _)
PageLoop(pages, p, all, n) ==
    IF Len(PageStep(pages[p], all, n)) = n \/ p = Len(pages)
    THEN PageStep(pages[p], all, n)
    ELSE PageLoop(pages, p + 1, PageStep(pages[p], all, n), n)

\* ghapi.Page over the pages get returns, when no get fails
Page(pages, n) == IF n = 0 THEN << >> ELSE PageLoop(pages, 1, << >>, n)

\* the fn of recentIssuesCache.Do: ListByRepo through OnlyTrueIssues, 100 at most
listIssues(repo) ==
    Page([p \in DOMAIN PagesOf(repo.issues) |-> OnlyTrueIssues(PagesOf(repo.issues)[p])],
         issuesLimit)

\* the fn of repoLabelsCache.Do: ListLabels, 300 at most
listLabels(repo) == Page(PagesOf(repo.labels), labelsLimit)

NoEntry == [ok |-> FALSE, v |-> << >>, deadline |-> 0]

\* tlru Get: the value of an entry that is present and not expired
cacheGet(c, key) == IF c[key].ok /\ now < c[key].deadline THEN c[key] ELSE NoEntry

\* tlru Set
cacheSet(c, key, v, d) == [c EXCEPT ![key] = [ok |-> TRUE, v |-> v, deadline |-> now + d]]


(***************************************************************************)
(* Specification SpecCache: concurrent Infer calls from their fetches to   *)
(* the completion call, over the shared caches and a source that changes.  *)
(***************************************************************************)
Kinds == {"issues", "labels"}

SourceInit ==
    [r \in Repos |->
        [issues |-> << SourceItem(Issue(4, 40, << >>, 1000), TRUE),
                       SourceItem(Issue(3, 30, <<"bug">>, 1000), FALSE),
                       SourceItem(Issue(2, 20, <<"bug">>, 1000), FALSE),
                       SourceItem(Issue(1, 10, IF r = "coder/coder" THEN <<"critical">>
                                               ELSE <<"roadmap">>, 1000), FALSE) >>,
         labels |-> <<Label("bug", Plain), Label("critical", Plain)>>]]

NoInfer ==
    [pc |-> "idle", req |-> [Repo |-> "", Issue |-> 0, TestMode |-> FALSE],
     lastIssues |-> << >>, repoLabels |-> << >>, err |-> "none", prompt |-> << >>,
     shared |-> FALSE]

InitCache ==
    /\ source = SourceInit
    /\ cache = [k \in Kinds |-> [r \in Repos |-> NoEntry]]
    /\ mu = [k \in Kinds |-> 0]
    /\ now = 0
    /\ infers = [i \in 1..MaxInfers |-> NoInfer]
    /\ fetches = [r \in Repos |-> [issues |-> 0, labels |-> 0, target |-> 0,
                                     issuesFailed |-> 0, labelsFailed |-> 0,
                                     served |-> {}]]
    /\ doLocks \in BOOLEAN
    /\ hook = NoHook
    /\ search = NoSearch
    /\ batch = NoBatch
    /\ indexer = NoIndexer
    /\ paging = NoPaging
    /\ github = [issues |-> << >>, labels |-> << >>, config |-> [Exclude |-> << >>],
                 target |-> TargetIssue]
    /\ req = [Issue |-> TargetIssue.number, TestMode |-> FALSE]
    /\ pc = "unused"
    /\ aiContext = NoContext
    /\ ret = NoRetrier
    /\ ctxCancelled = FALSE
    /\ calls = 0
    /\ waits = << >>
    /\ resp = NoResp
    /\ result = NoResult
    /\ cancelAt = -1
    /\ request = << >>
    /\ rpc = "unused"
    /\ visited = << >>

\* the position of an Infer call at, inside and after the Do of a cache
DoPc(k) == IF k = "issues" THEN "issuesDo" ELSE "labelsDo"
FnPc(k) == IF k = "issues" THEN "issuesFn" ELSE "labelsFn"
AfterPc(k) == IF k = "issues" THEN "labelsDo" ELSE "getTarget"
ErrOf(k) == IF k = "issues" THEN "list issues" ELSE "list labels"
FailedOf(k) == IF k = "issues" THEN "issuesFailed" ELSE "labelsFailed"

\* the local variable a Do assigns: lastIssues or repoLabels
Assign(inf, k, v) ==
    IF k = "issues" THEN [inf EXCEPT !.lastIssues = v] ELSE [inf EXCEPT !.repoLabels = v]

\* what fn fetches from the source
fetchList(k, repo) == IF k = "issues" THEN listIssues(repo) ELSE listLabels(repo)

\* Infer is called: installation config and repository config are fetched
InferStart(i) ==
    /\ infers[i].pc = "idle"
    /\ \E r \in Repos, t \in BOOLEAN :
         \/ infers' = [infers EXCEPT ![i] =
                [@ EXCEPT !.pc = "issuesDo",
                          !.req = [Repo |-> r, Issue |-> TargetIssue.number, TestMode |-> t]]]
         \/ infers' = [infers EXCEPT ![i] =
                [@ EXCEPT !.pc = "done", !.err = "get repo config",
                          !.req = [Repo |-> r, Issue |-> TargetIssue.number, TestMode |-> t]]]
    /\ UNCHANGED <<inferVars, jobVars, hook, search, source, cache, mu, now, fetches, doLocks>>

\* Do looks the key up: a live entry is returned, else fn is started
DoGet(i, k) ==
    /\ infers[i].pc = DoPc(k)
    /\ doLocks => mu[k] = 0
    /\ IF cacheGet(cache[k], infers[i].req.Repo).ok
       THEN /\ infers' = [infers EXCEPT ![i] =
                   [Assign(@, k, cacheGet(cache[k], infers[i].req.Repo).v)
                       EXCEPT !.pc = AfterPc(k),
                              !.shared = IF k = "issues" THEN TRUE ELSE @]]
            /\ mu' = mu
       ELSE /\ infers' = [infers EXCEPT ![i] = [@ EXCEPT !.pc = FnPc(k)]]
            /\ mu' = IF doLocks THEN [mu EXCEPT ![k] = i] ELSE mu
    /\ UNCHANGED <<inferVars, jobVars, hook, search, source, cache, now, fetches, doLocks>>

\* faulty variant: goes on with an empty list when the fetch fails
fetchFailed_EmptyList(inf, k) == [Assign(inf, k, << >>) EXCEPT !.pc = AfterPc(k)]

\* Infer when a Do returns an error: return nil, fmt.Errorf("list ...: %w", err)
fetchFailed(inf, k) == [inf EXCEPT !.pc = "done", !.err = ErrOf(k)]

\* fn returns: its value is stored for a minute and returned, its error is
\* returned with nothing stored; a stored issue list is a new array, which
\* the calls that got the entry before do not share
DoFn(i, k) ==
    /\ infers[i].pc = FnPc(k)
    /\ mu' = IF doLocks THEN [mu EXCEPT ![k] = 0] ELSE mu
    /\ \/ /\ fetches' = [fetches EXCEPT ![infers[i].req.Repo][k] = @ + 1]
          /\ cache' = [cache EXCEPT ![k] =
                 cacheSet(@, infers[i].req.Repo,
                          fetchList(k, source[infers[i].req.Repo]), cacheTTL)]
          /\ infers' = [j \in DOMAIN infers |->
                 IF j = i
                 THEN [Assign(infers[i], k, fetchList(k, source[infers[i].req.Repo]))
                          EXCEPT !.pc = AfterPc(k),
                                 !.shared = IF k = "issues" THEN TRUE ELSE @]
                 ELSE [infers[j] EXCEPT
                          !.shared = IF k = "issues" /\ infers[j].req.Repo = infers[i].req.Repo
                                     THEN FALSE ELSE @]]
       \/ /\ fetches' = [fetches EXCEPT ![infers[i].req.Repo][k] = @ + 1,
                                       ![infers[i].req.Repo][FailedOf(k)] = @ + 1]
          /\ cache' = cache
          /\ infers' = [infers EXCEPT ![i] = fetchFailed(@, k)]
    /\ UNCHANGED <<inferVars, jobVars, hook, search, source, now, doLocks>>

\* the issue the source holds under a number
TargetOf(repo, number) ==
    (CHOOSE item \in Items(repo.issues) : item.issue.number = number).issue

\* faulty variant: takes the target from the issue list when it is there
getTarget_FromList(inf) ==
    IF \E j \in DOMAIN inf.lastIssues : inf.lastIssues[j].number = inf.req.Issue
    THEN inf.lastIssues[CHOOSE j \in DOMAIN inf.lastIssues :
                            inf.lastIssues[j].number = inf.req.Issue]
    ELSE TargetOf(source[inf.req.Repo], inf.req.Issue)

\* githubClient.Issues.Get(ctx, req.User, req.Repo, req.Issue), when it succeeds
getTarget(inf) == TargetOf(source[inf.req.Repo], inf.req.Issue)

\* the target issue is fetched; the list is filtered and sorted, the context
\* is built and the request of the completion call is made from it.  While
\* the call's lastIssues is shared, that is has the backing array of the
\* entry of the issue cache (the entry was not replaced since the call got
\* its list), the entry has what filterIssues and sort.Slice leave in that
\* array; past this step the call has its own slice.
InferGetTarget(i) ==
    /\ infers[i].pc = "getTarget"
    /\ \/ /\ \E item \in Items(source[infers[i].req.Repo].issues) :
                  item.issue.number = infers[i].req.Issue
          /\ fetches' = [fetches EXCEPT
                 ![infers[i].req.Repo].target = @ + 1,
                 ![infers[i].req.Repo].served =
                     @ \cup {TargetOf(source[infers[i].req.Repo], infers[i].req.Issue).labels}]
          /\ \E sorted \in sortByCreatedAt(
                            filterIssues(infers[i].lastIssues, getTarget(infers[i]).number)) :
              /\ infers' = [infers EXCEPT ![i] =
                    [@ EXCEPT !.pc = "completion",
                              !.shared = FALSE,
                              !.lastIssues = sorted,
                              !.prompt = Request(
                                  [allLabels |-> infers[i].repoLabels,
                                   lastIssues |-> sorted,
                                   targetIssue |-> testModeTarget(getTarget(infers[i]),
                                                                  infers[i].req.TestMode)]
                                ).Messages]]
              /\ cache' =
                    IF infers[i].shared
                    THEN [cache EXCEPT !["issues"][infers[i].req.Repo].v =
                            arrayAfterSort(
                                filterIssuesArray(
                                    infers[i].lastIssues,
                                    filterIssues(infers[i].lastIssues,
                                                 getTarget(infers[i]).number)),
                                sorted)]
                    ELSE cache
       \/ /\ fetches' = [fetches EXCEPT ![infers[i].req.Repo].target = @ + 1]
          /\ infers' = [infers EXCEPT ![i] =
                 [@ EXCEPT !.pc = "done", !.err = "get target issue", !.shared = FALSE]]
          /\ cache' = cache
    /\ UNCHANGED <<inferVars, jobVars, hook, search, source, mu, now, doLocks>>

\* somebody labels the target issue at the source
SourceRelabel(r) ==
    /\ TargetOf(source[r], TargetIssue.number).labels = <<"bug">>
    /\ source' = [source EXCEPT ![r].issues =
          [j \in DOMAIN @ |->
              IF @[j].issue.number = TargetIssue.number
              THEN [@[j] EXCEPT !.issue.labels = <<"bug", "critical">>]
              ELSE @[j]]]
    /\ UNCHANGED <<inferVars, jobVars, hook, search, cache, mu, now, infers, fetches, doLocks>>

\* time passes
ClockTick ==
    /\ now < LastTick
    /\ now' = now + Tick
    /\ UNCHANGED <<inferVars, jobVars, hook, search, source, cache, mu, infers, fetches, doLocks>>

NextCache ==
    \/ \E i \in 1..MaxInfers : InferStart(i)
    \/ \E i \in 1..MaxInfers, k \in Kinds : DoGet(i, k)
    \/ \E i \in 1..MaxInfers, k \in Kinds : DoFn(i, k)
    \/ \E i \in 1..MaxInfers : InferGetTarget(i)
    \/ \E r \in Repos : SourceRelabel(r)
    \/ ClockTick

SpecCache == InitCache /\ [][NextCache]_vars


(***************************************************************************)
(* Claims about the fetches of Infer, checked under SpecCache.             *)
(***************************************************************************)
Infers == 1..MaxInfers

\* the Infer call i returned the error of the list fetch k, with no completion call
ReturnedListError(i, k) ==
    /\ infers[i].pc = "done"
    /\ infers[i].err = ErrOf(k)
    /\ infers[i].prompt = << >>

\* C13: every failed fetch of the issue list or the label list ended its
\* Infer call with the fetch error and without a completion call; a call
\* that reaches the completion call holds the lists of the source; a failing
\* fetch stores nothing, an entry of a cache comes from a fetch that
\* succeeded, and while every fetch of a list has failed the next Infer call
\* runs the fetch again.
C13_FetchErrorPropagates ==
    /\ [] ( \A r \in Repos, k \in Kinds :
              fetches[r][FailedOf(k)] =
                 Cardinality({ i \in Infers : infers[i].req.Repo = r
                                               /\ ReturnedListError(i, k) }) )
    /\ [] ( \A i \in Infers :
              infers[i].pc = "completion" =>
                 /\ infers[i].err = "none"
                 /\ infers[i].repoLabels = listLabels(source[infers[i].req.Repo]) )
    /\ [] ( \A r \in Repos, k \in Kinds :
              cache[k][r].ok => fetches[r][k] > fetches[r][FailedOf(k)] )
    /\ [][ \A r \in Repos, k \in Kinds :
              fetches'[r][FailedOf(k)] > fetches[r][FailedOf(k)] => cache' = cache ]_vars
    /\ [][ \A i \in Infers, k \in Kinds :
              ( /\ infers[i].pc = DoPc(k)
                /\ fetches[infers[i].req.Repo][k] = fetches[infers[i].req.Repo][FailedOf(k)] )
              => infers'[i].pc \in {DoPc(k), FnPc(k)} ]_vars

C13_Witness ==
    \E i, j \in Infers, r \in Repos :
        /\ infers[i].req.Repo = r /\ infers[j].req.Repo = r
        /\ ReturnedListError(i, "issues")
        /\ infers[j].pc = "completion"
        /\ fetches[r].issues = 2
        /\ fetches[r].issuesFailed = 1

C13_WitnessLabels ==
    \E i, j \in Infers, r \in Repos :
        /\ infers[i].req.Repo = r /\ infers[j].req.Repo = r
        /\ ReturnedListError(i, "labels")
        /\ infers[j].pc = "completion"
        /\ fetches[r].labels = 2
        /\ fetches[r].labelsFailed = 1

\* the Infer call i got past the fetch of its target issue, or failed in it
PastGetTarget(i) ==
    infers[i].pc = "completion" \/ infers[i].err = "get target issue"

\* the issue a cache entry of the issue list holds under a number
CachedIssue(r, number) ==
    { cache["issues"][r].v[j] : j \in
        { n \in DOMAIN cache["issues"][r].v : cache["issues"][r].v[n].number = number } }

\* C14: every Infer call that gets to its target makes one Get call to the
\* source, whatever the caches hold, and the target of the prompt has the
\* number and labels the source holds at that Get (labels cleared in test
\* mode), not those of the issue list's entry of that number.
C14_TargetFetchedDirectly ==
    /\ [] ( \A r \in Repos :
              fetches[r].target =
                 Cardinality({ i \in Infers : infers[i].req.Repo = r /\ PastGetTarget(i) }) )
    /\ [][ \A i \in Infers :
              (infers[i].pc = "getTarget" /\ infers'[i].pc = "completion") =>
                 /\ fetches'[infers[i].req.Repo].target = fetches[infers[i].req.Repo].target + 1
                 /\ infers'[i].prompt[4].text[1].number = infers[i].req.Issue
                 /\ infers'[i].prompt[4].text[1].labels =
                       IF infers[i].req.TestMode THEN << >>
                       ELSE TargetOf(source[infers[i].req.Repo], infers[i].req.Issue).labels ]_vars

\* two calls were served by one fetch of the issue list, whose entry of the
\* target is older than the target the second call put into its prompt
C14_Witness ==
    \E i, j \in Infers, r \in Repos :
        /\ i # j
        /\ infers[i].req.Repo = r /\ infers[j].req.Repo = r
        /\ infers[i].pc = "completion" /\ infers[j].pc = "completion"
        /\ fetches[r].issues = 1 /\ fetches[r].labels = 1 /\ fetches[r].target = 2
        /\ ~ infers[j].req.TestMode
        /\ \E old \in CachedIssue(r, infers[j].req.Issue) : old.labels = <<"bug">>
        /\ infers[j].prompt[4].text[1].labels = <<"bug", "critical">>


\* the numbers of the issues of a slice, in its order
NumbersOf(slice) == [j \in DOMAIN slice |-> slice[j].number]

\* the numbers of the issues the source lists for a repository
SourceNumbers(r) == NumbersOf(OnlyTrueIssues(source[r].issues))

\* C30: an entry of the issue cache or of the label cache changes only in the
\* step that stores the list a fetch returned, so no step of Infer past the
\* fetch (removing the target, sorting, stripping the labels in test mode,
\* pruning) changes it; the cached issue list holds every issue the source
\* listed, in the order of the source, and so does the lastIssues of each
\* call before it removes the target.
C30_CachedListsUntouched ==
    /\ [][ \A k \in Kinds, r \in Repos :
             cache'[k][r] # cache[k][r] =>
                /\ fetches'[r][k] = fetches[r][k] + 1
                /\ cache'[k][r].v = fetchList(k, source[r]) ]_vars
    /\ [] ( \A r \in Repos :
              cache["issues"][r].ok => NumbersOf(cache["issues"][r].v) = SourceNumbers(r) )
    /\ [] ( \A i \in Infers :
              infers[i].pc \in {"labelsDo", "labelsFn", "getTarget"}
                 => NumbersOf(infers[i].lastIssues) = SourceNumbers(infers[i].req.Repo) )

\* one call has removed the target from its list and sorted it, another call
\* served from the same cache entry is about to, and the entry is whole
C30_Witness ==
    \E i, j \in Infers, r \in Repos :
        /\ i # j
        /\ infers[i].pc = "completion" /\ infers[i].req.Repo = r
        /\ NumbersOf(infers[i].lastIssues) = <<1, 3>>
        /\ infers[j].pc = "getTarget" /\ infers[j].req.Repo = r
        /\ infers[j].shared
        /\ fetches[r].issues = 1
        /\ NumbersOf(infers[j].lastIssues) = <<3, 2, 1>>
        /\ NumbersOf(cache["issues"][r].v) = <<3, 2, 1>>

\* a call in test mode went by the cached lists
C30_WitnessTestMode ==
    \E i \in Infers, r \in Repos :
        /\ infers[i].pc = "completion" /\ infers[i].req.Repo = r
        /\ infers[i].req.TestMode
        /\ fetches[r].issues = 1
        /\ cache["issues"][r].v = fetchList("issues", source[r])
        /\ cache["labels"][r].v = infers[i].repoLabels


(***************************************************************************)
(* Specification SpecHistory: one Infer call over repositories of up to    *)
(* 250 issues and pull requests, the loop of Page taken one get at a time. *)
(***************************************************************************)
HistorySizes == {0, 1, 99, 100, 101, 150, 205, 250}
PullEvery == {0, 3, 5}

\* creation times in the order of the numbers, or in another order
CreatedAt(number, shuffled) == IF shuffled THEN (number * 7) % 251 ELSE number

\* total issues and pull requests, the highest number first; every m-th number
\* is a pull request
BigSource(total, m, shuffled) ==
    [issues |->
        [j \in 1..total |->
            SourceItem(Issue(total + 1 - j, CreatedAt(total + 1 - j, shuffled), <<"bug">>, 100),
                       m > 0 /\ (total + 1 - j) % m = 0)],
     labels |-> <<Label("bug", Plain), Label("critical", Plain)>>]

InitHistory ==
    /\ \E total \in HistorySizes, m \in PullEvery, shuffled \in BOOLEAN :
          source = [r \in Repos |-> BigSource(total, m, shuffled)]
    /\ doLocks \in BOOLEAN
    /\ hook = NoHook
    /\ search = NoSearch
    /\ batch = NoBatch
    /\ indexer = NoIndexer
    /\ paging = NoPaging
    /\ cache = [k \in Kinds |-> [r \in Repos |-> NoEntry]]
    /\ mu = [k \in Kinds |-> IF k = "issues" /\ doLocks THEN 1 ELSE 0]
    /\ now = 0
    /\ infers = [i \in 1..MaxInfers |->
                    IF i = 1
                    THEN [NoInfer EXCEPT !.pc = "issuesFn",
                                         !.req = [Repo |-> CHOOSE r \in Repos : TRUE,
                                                  Issue |-> TargetIssue.number,
                                                  TestMode |-> FALSE]]
                    ELSE NoInfer]
    /\ fetches = [r \in Repos |-> [issues |-> 0, labels |-> 0, target |-> 0,
                                     issuesFailed |-> 0, labelsFailed |-> 0,
                                     served |-> {}]]
    /\ github = [issues |-> << >>, labels |-> << >>, config |-> [Exclude |-> << >>],
                 target |-> TargetIssue]
    /\ req = [Issue |-> TargetIssue.number, TestMode |-> FALSE]
    /\ pc = "unused"
    /\ aiContext = NoContext
    /\ ret = NoRetrier
    /\ ctxCancelled = FALSE
    /\ calls = 0
    /\ waits = << >>
    /\ resp = NoResp
    /\ result = NoResult
    /\ cancelAt = -1
    /\ request = << >>
    /\ rpc = "unused"
    /\ visited = << >>

\* one get of the Page loop inside fn of recentIssuesCache.Do; lastIssues of
\* the call holds the items collected so far (all)
PageGet(i) ==
    /\ infers[i].pc = "issuesFn"
    /\ LET r == infers[i].req.Repo
           pages == PagesOf(source[r].issues)
           p == fetches[r].issues + 1
           all == PageStep(OnlyTrueIssues(pages[p]), infers[i].lastIssues, issuesLimit)
       IN  \/ /\ Len(all) < issuesLimit /\ p < Len(pages)
              /\ fetches' = [fetches EXCEPT ![r].issues = @ + 1]
              /\ infers' = [infers EXCEPT ![i].lastIssues = all]
              /\ UNCHANGED <<cache, mu>>
           \/ /\ Len(all) = issuesLimit \/ p = Len(pages)
              /\ fetches' = [fetches EXCEPT ![r].issues = @ + 1]
              /\ infers' = [infers EXCEPT ![i] =
                     [@ EXCEPT !.lastIssues = all, !.pc = AfterPc("issues"), !.shared = TRUE]]
              /\ cache' = [cache EXCEPT !["issues"] = cacheSet(@, r, all, cacheTTL)]
              /\ mu' = IF doLocks THEN [mu EXCEPT !["issues"] = 0] ELSE mu
           \/ /\ fetches' = [fetches EXCEPT ![r].issues = @ + 1, ![r].issuesFailed = @ + 1]
              /\ infers' = [infers EXCEPT ![i] =
                     fetchFailed([@ EXCEPT !.lastIssues = << >>], "issues")]
              /\ mu' = IF doLocks THEN [mu EXCEPT !["issues"] = 0] ELSE mu
              /\ cache' = cache
    /\ UNCHANGED <<inferVars, jobVars, hook, search, source, now, doLocks>>

NextHistory ==
    \/ PageGet(1)
    \/ DoGet(1, "labels")
    \/ DoFn(1, "labels")
    \/ InferGetTarget(1)

SpecHistory == InitHistory /\ [][NextHistory]_vars

\* the stepwise loop collects what Page returns
PageGetIsPage ==
    infers[1].pc \in {"labelsDo", "labelsFn", "getTarget"}
       => infers[1].lastIssues = listIssues(source[infers[1].req.Repo])

\* the numbers of the pull requests of a repository
PullNumbers(repo) == { item.issue.number : item \in { x \in Items(repo.issues) : x.pr } }

\* the numbers of its issues that are no pull request
IssueNumbers(repo) == { item.issue.number : item \in { x \in Items(repo.issues) : ~ x.pr } }

\* C15: the history of the context an Infer call builds holds at most 100
\* issues, all of them issues of the repository, none a pull request, none
\* with the target's number, each created no later than the one after it.
C15_HistoryShape ==
    \A i \in Infers :
        infers[i].pc = "completion" =>
            /\ Len(infers[i].lastIssues) <= 100
            /\ \A j \in DOMAIN infers[i].lastIssues :
                  /\ infers[i].lastIssues[j].number \in IssueNumbers(source[infers[i].req.Repo])
                  /\ infers[i].lastIssues[j].number \notin PullNumbers(source[infers[i].req.Repo])
                  /\ infers[i].lastIssues[j].number # infers[i].req.Issue
            /\ \A j, k \in DOMAIN infers[i].lastIssues :
                  j < k => infers[i].lastIssues[j].createdAt <= infers[i].lastIssues[k].createdAt

\* a repository of 250 items in no creation order, pull requests among the
\* newest, gives a history of exactly 100
C15_Witness ==
    /\ infers[1].pc = "completion"
    /\ Len(source[infers[1].req.Repo].issues) = 250
    /\ \E j \in 1..249 :
          source[infers[1].req.Repo].issues[j].issue.createdAt
             < source[infers[1].req.Repo].issues[j + 1].issue.createdAt
    /\ PullNumbers(source[infers[1].req.Repo]) # {}
    /\ Len(infers[1].lastIssues) = 100
    /\ fetches[infers[1].req.Repo].issues = 2

\* a repository of exactly 100 issues, the target among them, gives 99
C15_WitnessTarget ==
    /\ infers[1].pc = "completion"
    /\ Cardinality(IssueNumbers(source[infers[1].req.Repo])) = 100
    /\ Len(infers[1].lastIssues) = 99

\* the Infer call i in test mode has sent its prompt
SentInTestMode(i) == infers[i].pc = "completion" /\ infers[i].req.TestMode

\* C16: the prompts of two Infer calls in test mode for one issue are the
\* same whatever labels the target carried when each call fetched it: the
\* target of the prompt has no labels and no history record has its number.
C16_TestModePromptIndependent ==
    /\ \A i, j \in Infers :
          ( /\ SentInTestMode(i) /\ SentInTestMode(j)
            /\ infers[i].req.Repo = infers[j].req.Repo
            /\ infers[i].req.Issue = infers[j].req.Issue )
          => infers[i].prompt = infers[j].prompt
    /\ \A i \in Infers :
          SentInTestMode(i) =>
             /\ infers[i].prompt[4].text[1].labels = << >>
             /\ \A j \in DOMAIN infers[i].prompt[3].text :
                   infers[i].prompt[3].text[j].number # infers[i].req.Issue

\* two calls in test mode, the target served with other labels to the second
C16_Witness ==
    \E i, j \in Infers, r \in Repos :
        /\ i # j
        /\ SentInTestMode(i) /\ SentInTestMode(j)
        /\ infers[i].req.Repo = r /\ infers[j].req.Repo = r
        /\ fetches[r].target = 2
        /\ fetches[r].served = { <<"bug">>, <<"bug", "critical">> }
        /\ infers[i].prompt = infers[j].prompt

\* outside test mode the labels of the target are part of the prompt
C16_WitnessNoTestMode ==
    \E i, j \in Infers :
        /\ i # j
        /\ infers[i].pc = "completion" /\ infers[j].pc = "completion"
        /\ ~ infers[i].req.TestMode /\ ~ infers[j].req.TestMode
        /\ infers[i].prompt # infers[j].prompt


(***************************************************************************)
(* Specification SpecWebhook: one request to /webhook.  The handler parses *)
(* the event, calls Infer (the actions of Spec) for an opened or reopened  *)
(* issue and adds the labels Infer returned.  InstallationConfig only      *)
(* builds a configuration from the installation id: called again with the  *)
(* id Infer was given, it succeeds as it did inside Infer.                 *)
(***************************************************************************)
Events ==
    { [header |-> "issues", Action |-> a] : a \in {"opened", "reopened", "closed", "labeled"} }
    \cup { [header |-> "push", Action |-> ""] }

InitWebhook ==
    /\ github \in { [issues |-> is, labels |-> rc.labels, config |-> rc.config,
                     target |-> TargetIssue] : is \in IssueChoices, rc \in RepoChoices }
    /\ hook \in { [NoHook EXCEPT !.header = e.header, !.Action = e.Action, !.at = "received"] :
                    e \in Events }
    /\ req = [Issue |-> 0, TestMode |-> FALSE]
    /\ pc = "webhook"
    /\ aiContext = NoContext
    /\ ret = NoRetrier
    /\ ctxCancelled = FALSE
    /\ calls = 0
    /\ waits = << >>
    /\ resp = NoResp
    /\ result = NoResult
    /\ cancelAt = -1
    /\ request = << >>
    /\ rpc = "unused"
    /\ visited = << >>
    /\ source = << >>
    /\ cache = << >>
    /\ mu = << >>
    /\ now = 0
    /\ infers = << >>
    /\ fetches = << >>
    /\ doLocks = FALSE
    /\ search = NoSearch
    /\ batch = NoBatch
    /\ indexer = NoIndexer
    /\ paging = NoPaging

\* s.serverError: the error is logged and answered with 500
serverError(h) == [h EXCEPT !.Status = 500, !.logged = @ + 1, !.at = "responded"]

\* an answer with 200
statusOK(h) == [h EXCEPT !.Status = 200, !.at = "responded"]

\* faulty variant: labels opened issues only
isOpenedAction_OpenedOnly(action) == action = "opened"

\* the negation of payload.Action != "opened" && payload.Action != "reopened"
isOpenedAction(action) == action = "opened" \/ action = "reopened"

\* the handler up to its call of Infer: the event is parsed as an issues
\* event, any action but opened and reopened is answered at once
WebhookReceive ==
    /\ pc = "webhook"
    /\ IF hook.header # "issues"
       THEN /\ hook' = serverError(hook)
            /\ pc' = "responded"
            /\ req' = req
       ELSE IF ~ isOpenedAction(hook.Action)
       THEN /\ hook' = statusOK(hook)
            /\ pc' = "responded"
            /\ req' = req
       ELSE /\ hook' = [hook EXCEPT !.infers = @ + 1, !.at = "infer"]
            /\ pc' = "start"
            /\ req' = [Issue |-> TargetIssue.number, TestMode |-> FALSE]
    /\ UNCHANGED <<github, aiContext, ret, ctxCancelled, calls, waits, resp, result,
                   cancelAt, request, rpc, visited, cacheVars, search, jobVars>>

\* the handler after Infer returned: an error is answered with 500, an empty
\* label set with 200, else AddLabelsToIssue is called with the set
WebhookRespond ==
    /\ pc = "done"
    /\ hook.at = "infer"
    /\ pc' = "responded"
    /\ IF result.err # "none"
       THEN hook' = serverError(hook)
       ELSE IF Len(result.SetLabels) = 0
       THEN hook' = statusOK(hook)
       ELSE \/ /\ ~ ctxCancelled
               /\ hook' = statusOK([hook EXCEPT !.applies = @ + 1,
                                                !.applied = result.SetLabels])
            \/ hook' = serverError([hook EXCEPT !.applies = @ + 1,
                                                !.applied = result.SetLabels])
    /\ UNCHANGED <<github, req, aiContext, ret, ctxCancelled, calls, waits, resp, result,
                   cancelAt, request, rpc, visited, cacheVars, search, jobVars>>

NextWebhook ==
    \/ WebhookReceive
    \/ Next
    \/ WebhookRespond

SpecWebhook == InitWebhook /\ [][NextWebhook]_vars

(***************************************************************************)
(* Claims about the webhook, checked under SpecWebhook.                    *)
(***************************************************************************)
Responded == hook.at = "responded"

\* the request carried an issues event of an opened or reopened issue
OpenedEvent == hook.header = "issues" /\ hook.Action \in {"opened", "reopened"}

C17_WitnessEmpty ==
    /\ Responded /\ OpenedEvent
    /\ result.err = "none" /\ result.SetLabels = << >>
    /\ hook.applies = 0 /\ hook.Status = 200

C17_WitnessFailed ==
    /\ Responded /\ OpenedEvent
    /\ result.err = "create chat completion" /\ calls = 2
    /\ hook.applies = 0 /\ hook.infers = 1 /\ hook.logged = 1

C17_WitnessOther ==
    /\ Responded
    /\ hook.Action = "closed"
    /\ hook.Status = 200


(***************************************************************************)
(* Similarity search (search.go).  An embedding is a vector of integers;   *)
(* the cosine similarity of two vectors is kept exact, as the fraction     *)
(* sign(a.b) * (a.b)^2 / (|a|^2 * |b|^2), which orders as the cosine does. *)
(* The rows of ghindex.latest_issues are kept by number.                   *)
(***************************************************************************)
maxResults == 100

BqIssue(n, state, pr, emb) ==
    [Number |-> n, State |-> state, PullRequest |-> pr, Embedding |-> emb]

RECURSIVE Dot(_, _)
Dot(a, b) == IF a = << >> THEN 0 ELSE Head(a) * Head(b) + Dot(Tail(a), Tail(b))

Sign(x) == IF x < 0 THEN -1 ELSE IF x > 0 THEN 1 ELSE 0

\* vek.CosineSimilarity(a, b), for vectors of one length that are not zero
CosineSimilarity(a, b) ==
    [num |-> Sign(Dot(a, b)) * Dot(a, b) * Dot(a, b), den |-> Dot(a, a) * Dot(b, b)]

\* x > y on similarities
SimGreater(x, y) == x.num * y.den > y.num * x.den

Reverse(seq) == [i \in DOMAIN seq |-> seq[Len(seq) + 1 - i]]

\* getCachedRepoIssues: WHERE state = 'open' AND pull_request = false
\* ORDER BY number DESC, over rows kept by ascending number
getCachedRepoIssues(rows) ==
    SelectSeq(Reverse(rows), LAMBDA row : row.State = "open" /\ ~ row.PullRequest)

\* the items of the result more similar than, as similar as and less similar than x
Above(res, x) == SelectSeq(res, LAMBDA r : SimGreater(r.Similarity, x))
Level(res, x) ==
    SelectSeq(res, LAMBDA r : ~ SimGreater(r.Similarity, x) /\ ~ SimGreater(x, r.Similarity))
Below(res, x) == SelectSeq(res, LAMBDA r : SimGreater(x, r.Similarity))

\* the longest slice sort.Slice sorts by insertion alone, which keeps items
\* of one similarity in their order
maxInsertion == 12

\* the slice sorted by Similarity, greater first, equal items in their order
RECURSIVE insertionSorted(_)
insertionSorted(res) ==
    IF res = << >> THEN << >>
    ELSE insertionSorted(Above(res, res[(Len(res) + 1) \div 2].Similarity))
         \o Level(res, res[(Len(res) + 1) \div 2].Similarity)
         \o insertionSorted(Below(res, res[(Len(res) + 1) \div 2].Similarity))

\* every ordering by Similarity, greater first, equal items in any order
RECURSIVE anySorted(_)
anySorted(res) ==
    IF res = << >> THEN { << >> }
    ELSE { a \o e \o b :
             a \in anySorted(Above(res, res[(Len(res) + 1) \div 2].Similarity)),
             e \in Orderings(Level(res, res[(Len(res) + 1) \div 2].Similarity)),
             b \in anySorted(Below(res, res[(Len(res) + 1) \div 2].Similarity)) }

\* sort.Slice by Similarity, greater first: the sort is not stable, every
\* ordering of equal items can come out of a slice longer than maxInsertion
sortBySimilarity(res) ==
    IF Len(res) <= maxInsertion THEN { insertionSorted(res) } ELSE anySorted(res)

\* the result of bruteSearch before it is sorted
withSimilarity(issues, searchQuery) ==
    [i \in DOMAIN issues |->
        [BqIssue |-> issues[i],
         Similarity |-> CosineSimilarity(issues[i].Embedding, searchQuery)]]

\* bruteSearch: every result the sort can leave
bruteSearch(issues, searchQuery) == sortBySimilarity(withSimilarity(issues, searchQuery))

\* faulty variant: the result is never cut
truncate_NoCut(similarIssues) == similarIssues

\* if len(similarIssues) > maxResults { similarIssues = similarIssues[:maxResults] }
truncate(similarIssues) ==
    IF Len(similarIssues) > maxResults THEN SubSeq(similarIssues, 1, maxResults)
    ELSE similarIssues

\* Strip embeddings from response
stripEmbeddings(similarIssues) ==
    [i \in DOMAIN similarIssues |-> [similarIssues[i] EXCEPT !.BqIssue.Embedding = << >>]]


(***************************************************************************)
(* Specification SpecSearch: one request to /search, one step per call to  *)
(* GitHub, BigQuery or the embedding provider.                             *)
(***************************************************************************)
Open(n, emb) == BqIssue(n, "open", FALSE, emb)

\* the rows the table can hold for the repository
StoreChoices ==
    { << >>,
      << BqIssue(1, "closed", FALSE, <<1, 0>>), BqIssue(2, "open", TRUE, <<1, 1>>) >>,
      << Open(1, <<1, 0>>), Open(2, <<0, 1>>), BqIssue(3, "closed", FALSE, <<1, 1>>),
         Open(4, <<2, 1>>) >>,
      << Open(1, <<1, 1>>), Open(2, <<3, 1>>), Open(3, <<2, 2>>), Open(4, <<1, 3>>),
         Open(5, <<3, 3>>) >>,
      [n \in 1..14 |-> Open(n, IF n = 14 THEN <<26, 2>> ELSE <<n, 1>>)],
      [n \in 1..120 |-> Open(n, <<n, 1>>)] }

QueryEmbeddings == { <<1, 0>>, <<1, 1>> }

InitSearch ==
    /\ search \in
         [at : {"params"}, owner : {"", "coder"}, repo : {"", "labeler"}, q : {"", "crash"},
          private : BOOLEAN, rows : StoreChoices, cached : BOOLEAN,
          installFetches : {0}, repoGets : {0}, queries : {0}, embedCalls : {0},
          Status : {0}, issues : { << >> }]
    /\ hook = NoHook
    /\ batch = NoBatch
    /\ indexer = NoIndexer
    /\ paging = NoPaging
    /\ github = [issues |-> << >>, labels |-> << >>, config |-> [Exclude |-> << >>],
                 target |-> TargetIssue]
    /\ req = [Issue |-> TargetIssue.number, TestMode |-> FALSE]
    /\ pc = "unused"
    /\ aiContext = NoContext
    /\ ret = NoRetrier
    /\ ctxCancelled = FALSE
    /\ calls = 0
    /\ waits = << >>
    /\ resp = NoResp
    /\ result = NoResult
    /\ cancelAt = -1
    /\ request = << >>
    /\ rpc = "unused"
    /\ visited = << >>
    /\ source = << >>
    /\ cache = << >>
    /\ mu = << >>
    /\ now = 0
    /\ infers = << >>
    /\ fetches = << >>
    /\ doLocks = FALSE

\* the request is answered with a status and no issues
Answer(sr, status) == [sr EXCEPT !.at = "responded", !.Status = status]

\* owner, repo and q are required
SearchParams ==
    /\ search.at = "params"
    /\ search' = IF search.owner = "" \/ search.repo = "" \/ search.q = ""
                 THEN Answer(search, 400)
                 ELSE [search EXCEPT !.at = "installID"]
    /\ UNCHANGED <<inferVars, cacheVars, hook, jobVars>>

\* repoToInstallID.Do: the cached id, or the one InstallIDForRepo fetches
SearchInstallID ==
    /\ search.at = "installID"
    /\ IF search.cached
       THEN search' = [search EXCEPT !.at = "getRepo"]
       ELSE \/ search' = [search EXCEPT !.at = "getRepo", !.cached = TRUE,
                                        !.installFetches = @ + 1]
            \/ search' = Answer([search EXCEPT !.installFetches = @ + 1], 500)
    /\ UNCHANGED <<inferVars, cacheVars, hook, jobVars>>

\* faulty variant: searches private repositories as well
afterGetRepo_NoCheck(private) == "query"

\* if repo.GetPrivate() { return Forbidden }
afterGetRepo(private) == IF private THEN "forbidden" ELSE "query"

\* ghClient.Repositories.Get, then the check of the repository's privacy
SearchGetRepo ==
    /\ search.at = "getRepo"
    /\ \/ search' = Answer([search EXCEPT !.repoGets = @ + 1], 500)
       \/ search' = IF afterGetRepo(search.private) = "forbidden"
                    THEN Answer([search EXCEPT !.repoGets = @ + 1], 403)
                    ELSE [search EXCEPT !.repoGets = @ + 1, !.at = "query"]
    /\ UNCHANGED <<inferVars, cacheVars, hook, jobVars>>

\* faulty variant: goes on with no issues
afterQuery_NoCheck(repoIssues) == "embed"

\* if len(repoIssues) == 0 { return NotFound }
afterQuery(repoIssues) == IF Len(repoIssues) = 0 THEN "notFound" ELSE "embed"

\* getCachedRepoIssues, then the check for an empty result
SearchQuery ==
    /\ search.at = "query"
    /\ \/ search' = Answer([search EXCEPT !.queries = @ + 1], 500)
       \/ search' = IF afterQuery(getCachedRepoIssues(search.rows)) = "notFound"
                    THEN Answer([search EXCEPT !.queries = @ + 1], 404)
                    ELSE [search EXCEPT !.queries = @ + 1, !.at = "embed"]
    /\ UNCHANGED <<inferVars, cacheVars, hook, jobVars>>

\* CreateEmbeddings of the query, then bruteSearch, the cut to maxResults and
\* the stripping of the embeddings
SearchEmbed ==
    /\ search.at = "embed"
    /\ \/ search' = Answer([search EXCEPT !.embedCalls = @ + 1], 500)
       \/ \E searchEmbedding \in QueryEmbeddings :
            \E similarIssues \in bruteSearch(getCachedRepoIssues(search.rows), searchEmbedding) :
               search' = Answer([search EXCEPT
                                    !.embedCalls = @ + 1,
                                    !.issues = stripEmbeddings(truncate(similarIssues))], 200)
    /\ UNCHANGED <<inferVars, cacheVars, hook, jobVars>>

NextSearch ==
    \/ SearchParams
    \/ SearchInstallID
    \/ SearchGetRepo
    \/ SearchQuery
    \/ SearchEmbed

SpecSearch == InitSearch /\ [][NextSearch]_vars


(***************************************************************************)
(* Claims about the search, checked under SpecSearch.                      *)
(***************************************************************************)
SearchResponded == search.at = "responded"

\* the rows a search of the repository is run over: open issues, no pull requests
IndexedRows == { i \in DOMAIN search.rows :
                   search.rows[i].State = "open" /\ ~ search.rows[i].PullRequest }

\* C18: a search request on a private repository makes no embedding call, and
\* a request that is answered with 403 made none; once GitHub has told that
\* the repository is private the answer is 403, before the table is read.
C18_PrivateForbiddenFirst ==
    /\ search.private => search.embedCalls = 0
    /\ search.Status = 403 => (search.embedCalls = 0 /\ search.queries = 0)
    /\ (SearchResponded /\ search.private /\ search.Status \notin {400, 500})
          => search.Status = 403

C18_Witness ==
    /\ SearchResponded
    /\ search.private
    /\ search.repoGets = 1
    /\ IndexedRows # {}
    /\ search.Status = 403
    /\ search.embedCalls = 0

\* C19: a search of a public repository with no indexed row is answered with
\* 404 once the table was read, and no answer with 200 has an empty issues list.
C19_EmptyIndexNotFound ==
    /\ ( /\ SearchResponded
         /\ ~ search.private
         /\ IndexedRows = {}
         /\ search.queries = 1
         /\ search.Status # 500 )
       => (search.Status = 404 /\ search.issues = << >>)
    /\ search.Status = 200 => search.issues # << >>
    /\ search.Status = 404 => IndexedRows = {}

C19_Witness ==
    /\ SearchResponded
    /\ ~ search.private
    /\ search.rows = << >>
    /\ search.queries = 1
    /\ search.Status = 404

C19_WitnessClosedOnly ==
    /\ SearchResponded
    /\ search.rows # << >>
    /\ IndexedRows = {}
    /\ search.Status = 404

\* the place of an issue in the rows the table returned
StoreOrder(number) ==
    CHOOSE i \in DOMAIN getCachedRepoIssues(search.rows) :
        getCachedRepoIssues(search.rows)[i].Number = number

\* C20: the issues of an answer are ordered by similarity, the greater
\* first, and issues of one similarity are in the order the table returned
\* them in.
C20_StableDescending ==
    search.Status = 200 =>
        \A j, k \in DOMAIN search.issues :
            j < k =>
                /\ ~ SimGreater(search.issues[k].Similarity, search.issues[j].Similarity)
                /\ ~ SimGreater(search.issues[j].Similarity, search.issues[k].Similarity)
                      => StoreOrder(search.issues[j].BqIssue.Number)
                            < StoreOrder(search.issues[k].BqIssue.Number)

\* the descending order alone
C20_Descending ==
    search.Status = 200 =>
        \A j, k \in DOMAIN search.issues :
            j < k => ~ SimGreater(search.issues[k].Similarity, search.issues[j].Similarity)

\* the numbers of the issues of the answer
AnswerNumbers == { search.issues[j].BqIssue.Number : j \in DOMAIN search.issues }

\* C21: an answer with 200 holds at most maxResults issues, as many as there
\* are indexed rows up to that number, each of them an indexed row and none
\* twice; no indexed row left out is more similar to the query than a row of
\* the answer; and no issue of the answer has an embedding.
C21_TopResultsStripped ==
    search.Status = 200 =>
        /\ Len(search.issues) <= maxResults
        /\ Len(search.issues) = Min(maxResults, Cardinality(IndexedRows))
        /\ Cardinality(AnswerNumbers) = Len(search.issues)
        /\ AnswerNumbers \subseteq { search.rows[i].Number : i \in IndexedRows }
        /\ \E searchQuery \in QueryEmbeddings :
              /\ \A j \in DOMAIN search.issues :
                    search.issues[j].Similarity =
                       CosineSimilarity(search.rows[search.issues[j].BqIssue.Number].Embedding,
                                        searchQuery)
              /\ \A i \in IndexedRows :
                    search.rows[i].Number \notin AnswerNumbers =>
                       \A j \in DOMAIN search.issues :
                          ~ SimGreater(CosineSimilarity(search.rows[i].Embedding, searchQuery),
                                       search.issues[j].Similarity)
        /\ \A j \in DOMAIN search.issues : search.issues[j].BqIssue.Embedding = << >>

\* an answer cut to maxResults issues out of more indexed rows
C21_Witness ==
    /\ search.Status = 200
    /\ Cardinality(IndexedRows) > maxResults
    /\ Len(search.issues) = maxResults
    /\ search.issues[1].BqIssue.Embedding = << >>

\* an answer that needed no cut
C21_WitnessShort ==
    /\ search.Status = 200
    /\ Len(search.issues) = 3
    /\ search.issues[1].BqIssue.Embedding = << >>


(***************************************************************************)
(* Claims about the sanitizing of the model's labels, checked under Spec.  *)
(***************************************************************************)
\* the label list the model answered with
ModelLabels == resp.Choices[1].Content.items

\* a label of the model's list that the sanitizing deletes
Deleted(label) == IsDisabled(label) \/ label \notin RepoNames

\* the number of times x occurs in the slice
Count(slice, x) == Cardinality({ i \in DOMAIN slice : slice[i] = x })

\* the places of the model's list whose labels are kept
KeptPlaces == { i \in DOMAIN ModelLabels : ~ Deleted(ModelLabels[i]) }

\* C23: the SetLabels of a successful Infer call are the model's label list
\* with the disabled and the nonexistent entries deleted: the j-th label of
\* SetLabels is the j-th kept entry of the model's list, so the kept entries
\* are in the model's order, and a kept label occurs as often as in the
\* model's list, a deleted one not at all.
C23_SetLabelsFiltered ==
    Succeeded =>
        /\ Len(result.SetLabels) = Cardinality(KeptPlaces)
        /\ \A j \in DOMAIN result.SetLabels :
              \E i \in KeptPlaces :
                 /\ Cardinality({ k \in KeptPlaces : k <= i }) = j
                 /\ result.SetLabels[j] = ModelLabels[i]
        /\ \A label \in RawNames :
              Count(result.SetLabels, label) =
                 IF Deleted(label) THEN 0 ELSE Count(ModelLabels, label)

\* a label kept twice
C23_Witness ==
    /\ Succeeded
    /\ ModelLabels = <<"bug", "bug">>
    /\ result.SetLabels = <<"bug", "bug">>

\* the order of the kept labels
C23_WitnessOrder ==
    /\ Succeeded
    /\ ModelLabels = <<"critical", "bug">>
    /\ result.SetLabels = <<"critical", "bug">>

\* a deleted label
C23_WitnessDeleted ==
    /\ Succeeded
    /\ ModelLabels = <<"roadmap", "bug">>
    /\ result.SetLabels = <<"bug">>

\* C24: sanitizing the SetLabels of a successful Infer call once more, with
\* the same repository labels and exclusions, gives the same SetLabels.
C24_SanitizeIdempotent ==
    Succeeded =>
        InferResponse(result.SetLabels, github.labels, github.config).SetLabels
           = result.SetLabels

\* the first sanitizing deleted a label and kept one
C24_Witness ==
    /\ Succeeded
    /\ Len(ModelLabels) = 2
    /\ Len(result.SetLabels) = 1
    /\ InferResponse(result.SetLabels, github.labels, github.config).SetLabels
          = result.SetLabels

\* the first sanitizing deleted a disabled label that the model gave twice
C24_WitnessTwice ==
    /\ Succeeded
    /\ ModelLabels = <<"roadmap", "roadmap">>
    /\ IsDisabled("roadmap")
    /\ result.SetLabels = << >>


(***************************************************************************)
(* Specification SpecBatch: the test command (cmd/labeler, part_010 from   *)
(* line 476).  The command lists the issues to test and starts one         *)
(* goroutine for each, after a send on the channel semaphore; a goroutine  *)
(* calls Infer, records the answer under stMu and receives from semaphore  *)
(* as it ends.  A goroutine is at "none" before the go statement, then at  *)
(* "started", "infer" (inside srv.Infer), "stats" (holding stMu), "ended". *)
(***************************************************************************)
MaxBatch == 6          \* most issues the test command is asked to test

semaphoreSize == 4

\* the issues the command tests, by their place in testIssues
Workers == 1..batch.n

InitBatch ==
    /\ batch \in [at : {"loop"}, n : 0..MaxBatch, i : {1}, semaphore : {0},
                  workers : {[w \in 1..MaxBatch |-> "none"]}, stMu : {0},
                  failed : {{}}, processed : {{}}]
    /\ hook = NoHook
    /\ search = NoSearch
    /\ indexer = NoIndexer
    /\ paging = NoPaging
    /\ github = [issues |-> << >>, labels |-> << >>, config |-> [Exclude |-> << >>],
                 target |-> TargetIssue]
    /\ req = [Issue |-> TargetIssue.number, TestMode |-> FALSE]
    /\ pc = "unused"
    /\ aiContext = NoContext
    /\ ret = NoRetrier
    /\ ctxCancelled = FALSE
    /\ calls = 0
    /\ waits = << >>
    /\ resp = NoResp
    /\ result = NoResult
    /\ cancelAt = -1
    /\ request = << >>
    /\ rpc = "unused"
    /\ visited = << >>
    /\ source = << >>
    /\ cache = << >>
    /\ mu = << >>
    /\ now = 0
    /\ infers = << >>
    /\ fetches = << >>
    /\ doLocks = FALSE

\* faulty variant: a send never blocks
canSend_Always(length) == TRUE

\* a send on the buffered channel goes on while the buffer is not full
canSend(length) == length < semaphoreSize

\* one pass of for i, issue := range testIssues: the send on semaphore and the
\* go statement; the loop is left after the last issue
BatchSpawn ==
    /\ batch.at = "loop"
    /\ IF batch.i > batch.n
       THEN batch' = [batch EXCEPT !.at = "wait"]
       ELSE /\ canSend(batch.semaphore)
            /\ batch' = [batch EXCEPT !.semaphore = @ + 1,
                                      !.workers[batch.i] = "started",
                                      !.i = @ + 1]
    /\ UNCHANGED <<inferVars, cacheVars, hook, search, indexer, paging>>

\* the goroutine calls srv.Infer
BatchInfer(w) ==
    /\ w \in Workers
    /\ batch.workers[w] = "started"
    /\ batch' = [batch EXCEPT !.workers[w] = "infer"]
    /\ UNCHANGED <<inferVars, cacheVars, hook, search, indexer, paging>>

\* Infer returned an error: it is logged and the goroutine ends, receiving
\* from semaphore
BatchInferFailed(w) ==
    /\ w \in Workers
    /\ batch.workers[w] = "infer"
    /\ batch' = [batch EXCEPT !.workers[w] = "ended",
                              !.failed = @ \cup {w},
                              !.semaphore = @ - 1]
    /\ UNCHANGED <<inferVars, cacheVars, hook, search, indexer, paging>>

\* Infer returned an answer: stMu.Lock()
BatchLock(w) ==
    /\ w \in Workers
    /\ batch.workers[w] = "infer"
    /\ batch.stMu = 0
    /\ batch' = [batch EXCEPT !.workers[w] = "stats", !.stMu = w]
    /\ UNCHANGED <<inferVars, cacheVars, hook, search, indexer, paging>>

\* st.process, then the deferred calls: stMu.Unlock(), cancel() and the
\* receive from semaphore
BatchProcess(w) ==
    /\ w \in Workers
    /\ batch.workers[w] = "stats"
    /\ batch' = [batch EXCEPT !.workers[w] = "ended",
                              !.processed = @ \cup {w},
                              !.stMu = 0,
                              !.semaphore = @ - 1]
    /\ UNCHANGED <<inferVars, cacheVars, hook, search, indexer, paging>>

\* for len(semaphore) > 0 { time.Sleep(time.Second) }, then st.print
BatchWait ==
    /\ batch.at = "wait"
    /\ batch.semaphore = 0
    /\ batch' = [batch EXCEPT !.at = "done"]
    /\ UNCHANGED <<inferVars, cacheVars, hook, search, indexer, paging>>

NextBatch ==
    \/ BatchSpawn
    \/ \E w \in 1..MaxBatch : BatchInfer(w)
    \/ \E w \in 1..MaxBatch : BatchInferFailed(w)
    \/ \E w \in 1..MaxBatch : BatchLock(w)
    \/ \E w \in 1..MaxBatch : BatchProcess(w)
    \/ BatchWait

SpecBatch == InitBatch /\ [][NextBatch]_vars

\* the goroutines that are inside srv.Infer
InFlight == { w \in Workers : batch.workers[w] = "infer" }

\* the goroutines that were started and have not ended
Running == { w \in Workers : batch.workers[w] \in {"started", "infer", "stats"} }

\* C25: at most semaphoreSize Infer calls of the test command are in flight;
\* the channel holds one item for each goroutine that runs, so each call in
\* flight has its slot; and the step that starts an Infer call is taken by a
\* goroutine whose slot was acquired before, it acquires none.
C25_BoundedConcurrency ==
    /\ [] ( /\ Cardinality(InFlight) <= semaphoreSize
            /\ batch.semaphore <= semaphoreSize
            /\ batch.semaphore = Cardinality(Running) )
    /\ [][ \A w \in 1..MaxBatch :
             (batch.workers[w] # "infer" /\ batch'.workers[w] = "infer")
                => (w \in Running /\ batch'.semaphore = batch.semaphore) ]_vars

\* four calls in flight and a fifth issue waiting for a slot
C25_Witness ==
    /\ Cardinality(InFlight) = semaphoreSize
    /\ batch.at = "loop"
    /\ batch.i <= batch.n
    /\ batch.semaphore = semaphoreSize

\* the fifth call in flight after one of the first four ended
C25_WitnessFifth ==
    /\ batch.workers[5] = "infer"
    /\ Cardinality(InFlight) = semaphoreSize
    /\ \E w \in 1..4 : batch.workers[w] = "ended"


(***************************************************************************)
(* Specification SpecPage: one call of ghapi.Page, one step per call of    *)
(* get.  The list has the items 1, 2, ... in the order of the source,      *)
(* which serves it in pages of PerPage items; failAt is the get that       *)
(* fails, 0 when none does.                                                *)
(***************************************************************************)
\* no Infer call runs
InferUnused ==
    /\ github = [issues |-> << >>, labels |-> << >>, config |-> [Exclude |-> << >>],
                 target |-> TargetIssue]
    /\ req = [Issue |-> TargetIssue.number, TestMode |-> FALSE]
    /\ pc = "unused"
    /\ aiContext = NoContext
    /\ ret = NoRetrier
    /\ ctxCancelled = FALSE
    /\ calls = 0
    /\ waits = << >>
    /\ resp = NoResp
    /\ result = NoResult
    /\ cancelAt = -1
    /\ request = << >>
    /\ rpc = "unused"
    /\ visited = << >>

\* the caches are not used
CachesUnused ==
    /\ source = << >>
    /\ cache = << >>
    /\ mu = << >>
    /\ now = 0
    /\ infers = << >>
    /\ fetches = << >>
    /\ doLocks = FALSE

\* the lengths of the list, around the page size
PageTotals == {0, 1, 99, 100, 101, 200, 201, 250}

\* the values of n
PageLimits == {-1, 0, 1, 50, 100, 101, 200, 300}

InitPage ==
    /\ paging \in [at : {"call"}, n : PageLimits,
                   list : { [j \in 1..t |-> j] : t \in PageTotals },
                   failAt : 0..3, p : {1}, all : { << >> }, gets : {0},
                   failed : {FALSE}, items : { << >> }, err : {"none"}]
    /\ InferUnused
    /\ CachesUnused
    /\ hook = NoHook
    /\ search = NoSearch
    /\ batch = NoBatch
    /\ indexer = NoIndexer

\* Page returns
PageReturn(pg, items, err) == [pg EXCEPT !.at = "returned", !.items = items, !.err = err]

\* the check of n before the loop: "none" to go on, else the error
checkN(n) == IF n < 0 THEN "n must be non-negative" ELSE "none"

\* if n == 0 { return all, nil }; if n < 0 { return nil, error }
PageEnter ==
    /\ paging.at = "call"
    /\ paging' = IF paging.n = 0 THEN PageReturn(paging, << >>, "none")
                 ELSE IF checkN(paging.n) # "none"
                 THEN PageReturn(paging, << >>, checkN(paging.n))
                 ELSE [paging EXCEPT !.at = "loop"]
    /\ UNCHANGED <<inferVars, cacheVars, hook, search, batch, indexer>>

\* faulty variant: the items collected before the failing get are returned
onGetError_Partial(all) == all

\* return nil, fmt.Errorf("list: %w", err)
onGetError(all) == << >>

\* one pass of the loop: get, the append of its items up to n, NextPage
PageFetch ==
    /\ paging.at = "loop"
    /\ LET pages == PagesOf(paging.list)
           all == PageStep(pages[paging.p], paging.all, paging.n)
       IN  paging' =
             IF paging.failAt = paging.p
             THEN PageReturn([paging EXCEPT !.gets = @ + 1, !.failed = TRUE],
                             onGetError(paging.all), "list")
             ELSE IF Len(all) = paging.n \/ paging.p = Len(pages)
             THEN PageReturn([paging EXCEPT !.gets = @ + 1, !.all = all], all, "none")
             ELSE [paging EXCEPT !.gets = @ + 1, !.all = all, !.p = @ + 1]
    /\ UNCHANGED <<inferVars, cacheVars, hook, search, batch, indexer>>

NextPage == PageEnter \/ PageFetch

SpecPage == InitPage /\ [][NextPage]_vars

\* the operator Page is what the loop returns when no get fails
PageFetchIsPage ==
    (paging.at = "returned" /\ paging.err = "none")
       => paging.items = Page(PagesOf(paging.list), paging.n)

\* the items of the list that come before page p of the source
BeforePage(p) == Min(Len(paging.list), (p - 1) * PerPage)

\* C26: a call of Page with n >= 0 whose gets all succeeded returns no error
\* and the first min(n, total) items of the list, in order, and made no get
\* once n items were collected: the pages before its last get held fewer
\* than n items, and with n = 0 it made none.  A call one of whose gets
\* failed returns an error and no items.
C26_PageContract ==
    (paging.at = "returned" /\ paging.n >= 0) =>
        /\ ~ paging.failed =>
              /\ paging.err = "none"
              /\ Len(paging.items) <= paging.n
              /\ paging.items = SubSeq(paging.list, 1, Min(paging.n, Len(paging.list)))
              /\ paging.n = 0 => paging.gets = 0
              /\ paging.gets > 0 => BeforePage(paging.gets) < paging.n
        /\ paging.failed => (paging.err # "none" /\ paging.items = << >>)

\* n items out of a longer list, the third page not asked for
C26_Witness ==
    /\ paging.at = "returned"
    /\ paging.n = 200
    /\ Len(paging.list) = 250
    /\ paging.gets = 2
    /\ Len(paging.items) = 200
    /\ paging.err = "none"

\* a list shorter than n, read to its last page
C26_WitnessShort ==
    /\ paging.at = "returned"
    /\ paging.n = 300
    /\ Len(paging.list) = 201
    /\ paging.gets = 3
    /\ Len(paging.items) = 201

\* the second get fails after a page was collected
C26_WitnessFailed ==
    /\ paging.at = "returned"
    /\ paging.failed
    /\ paging.gets = 2
    /\ Len(paging.all) = 100
    /\ paging.items = << >>
    /\ paging.err = "list"


(***************************************************************************)
(* Specification SpecIndexer: Indexer.Run (indexer.go), one step per       *)
(* function it calls: findRandInstall, indexInstall, the select on the     *)
(* ticker and the context.  The GitHub App has installs installations,     *)
(* each with the issues of indexer.issues (issue id -> updated_at); an     *)
(* index pass is one call of runIndex.                                     *)
(***************************************************************************)
MaxPasses == 4         \* most index passes of one Run
MaxInstalls == 2       \* most installations of the GitHub App

installsLimit == 1000000
allItems == -1

\* what a call of Page returns for a list served in pages, n and whether a
\* get fails
PageOutcome(list, n, getFails) ==
    IF n = 0 THEN [items |-> << >>, err |-> "none", gets |-> 0]
    ELSE IF checkN(n) # "none" THEN [items |-> << >>, err |-> checkN(n), gets |-> 0]
    ELSE IF getFails THEN [items |-> onGetError(<< >>), err |-> "list", gets |-> 1]
    ELSE [items |-> Page(PagesOf(list), n), err |-> "none", gets |-> Len(PagesOf(list))]

InitIndexer ==
    /\ indexer \in [at : {"runIndex"}, installs : 0..MaxInstalls, install : {0},
                    issues : { <<1, 1>> }, table : { << >> },
                    passes : {0}, ticks : {0}, logged : {0}, cancelled : {FALSE},
                    err : {"pending"}, passErr : {"none"}, callFailed : {FALSE},
                    githubCalls : {0}]
    /\ InferUnused
    /\ CachesUnused
    /\ hook = NoHook
    /\ search = NoSearch
    /\ batch = NoBatch
    /\ paging = NoPaging

\* runIndex returns err to Run, which logs it and goes to the select
passFailed(ix, err) ==
    [ix EXCEPT !.at = "select", !.passErr = err, !.logged = @ + 1]

\* rand.Intn(n), as a place 1..n of the slice: it panics when n <= 0, which
\* is the outcome 0
randIntn(n) == IF n <= 0 THEN {0} ELSE 1..n

\* runIndex calls findRandInstall: the installations are listed and one of
\* them is drawn
IndexFindRandInstall ==
    /\ indexer.at = "runIndex"
    /\ \E getFails \in BOOLEAN :
         LET out == PageOutcome([j \in 1..indexer.installs |-> j], installsLimit, getFails)
             ix == [indexer EXCEPT !.passes = @ + 1, !.callFailed = getFails,
                                   !.githubCalls = out.gets, !.passErr = "none",
                                   !.install = 0]
         IN  IF out.err # "none"
             THEN indexer' = passFailed(ix, "find random install")
             ELSE \E toIndex \in randIntn(Len(out.items)) :
                     indexer' = IF toIndex = 0
                                THEN [ix EXCEPT !.at = "panicked"]
                                ELSE [ix EXCEPT !.at = "indexInstall",
                                                !.install = out.items[toIndex]]
    /\ UNCHANGED <<inferVars, cacheVars, hook, search, batch, paging>>

\* runIndex calls indexInstall: InstallationConfig, then the repositories are
\* listed with Page(..., -1)
IndexInstall ==
    /\ indexer.at = "indexInstall"
    /\ \E getFails \in BOOLEAN :
         LET out == PageOutcome(<<"coder/labeler">>, allItems, getFails)
             ix == [indexer EXCEPT !.callFailed = @ \/ (out.gets > 0 /\ getFails),
                                   !.githubCalls = @ + out.gets]
         IN  indexer' = IF out.err # "none"
                        THEN passFailed(ix, "index install: list repos")
                        ELSE [ix EXCEPT !.at = "getUpdatedAts"]
    /\ UNCHANGED <<inferVars, cacheVars, hook, search, batch, paging>>

\* case <-ticker.C: continue
IndexTick ==
    /\ indexer.at = "select"
    /\ indexer.passes < MaxPasses
    /\ indexer' = [indexer EXCEPT !.at = "runIndex", !.ticks = @ + 1]
    /\ UNCHANGED <<inferVars, cacheVars, hook, search, batch, paging>>

\* case <-ctx.Done(): return nil
IndexDone ==
    /\ indexer.at = "select"
    /\ indexer.cancelled
    /\ indexer' = [indexer EXCEPT !.at = "returned", !.err = "nil"]
    /\ UNCHANGED <<inferVars, cacheVars, hook, search, batch, paging>>

\* the context of Run is cancelled
IndexCancel ==
    /\ indexer.at \in {"runIndex", "indexInstall", "select"}
    /\ ~ indexer.cancelled
    /\ indexer' = [indexer EXCEPT !.cancelled = TRUE]
    /\ UNCHANGED <<inferVars, cacheVars, hook, search, batch, paging>>

NextIndexer ==
    \/ IndexFindRandInstall
    \/ IndexInstall
    \/ IndexTick
    \/ IndexDone
    \/ IndexCancel

SpecIndexer == InitIndexer /\ [][NextIndexer]_vars


(***************************************************************************)
(* Claims about the indexer, checked under SpecIndexer.                    *)
(***************************************************************************)
\* the issue with this id is in the table at its current updated_at
Indexed(id) ==
    \E r \in DOMAIN indexer.table :
        /\ indexer.table[r].id = id
        /\ indexer.table[r].updated_at = indexer.issues[id]

\* indexInstall was called in the pass and has returned
IndexInstallReturned == indexer.at = "select" /\ indexer.install # 0

\* C27: when the indexInstall of a pass has returned and no call to GitHub,
\* to the embedding provider or to the table failed in the pass, it returned
\* nil and every issue of the installation is in the table at its current
\* updated_at.
C27_IndexInstallIndexesAll ==
    (IndexInstallReturned /\ ~ indexer.callFailed) =>
        /\ indexer.passErr = "none"
        /\ \A id \in DOMAIN indexer.issues : Indexed(id)

\* indexInstall never returns nil: it fails on its list of the repositories
\* with no call to GitHub after the one that listed the installations
C27_IndexInstallFails ==
    IndexInstallReturned =>
        /\ indexer.passErr = "index install: list repos"
        /\ indexer.githubCalls = 1
        /\ indexer.table = << >>

\* C29: Run starts a pass at once and one more after each tick; a pass that
\* fails, the pass that finds no installation included, is logged and leaves
\* Run in its select, from which the next tick starts the next pass; Run
\* returns only once the context is cancelled, and then nil.
C29_RunKeepsPassing ==
    /\ [] (indexer.passes = indexer.ticks + (IF indexer.at = "runIndex" THEN 0 ELSE 1))
    /\ [][ (indexer.at \in {"runIndex", "indexInstall"} /\ indexer'.at # indexer.at
              /\ indexer'.at \notin {"indexInstall", "getUpdatedAts"})
             => (indexer'.at = "select" /\ indexer'.logged = indexer.logged + 1) ]_vars
    /\ [] (indexer.at # "panicked")
    /\ [] (indexer.at = "returned" => (indexer.cancelled /\ indexer.err = "nil"))
    /\ [] (indexer.err \in {"pending", "nil"})

\* the same but for the pass that finds no installation: with one
\* installation at least, or a failing list of them, Run does as C29 says
C29_RunWithInstallation ==
    /\ [] (indexer.passes = indexer.ticks + (IF indexer.at = "runIndex" THEN 0 ELSE 1))
    /\ [][ (indexer.at \in {"runIndex", "indexInstall"} /\ indexer'.at # indexer.at
              /\ indexer'.at \notin {"indexInstall", "getUpdatedAts", "panicked"})
             => (indexer'.at = "select" /\ indexer'.logged = indexer.logged + 1) ]_vars
    /\ [] (indexer.at = "panicked" => indexer.installs = 0)
    /\ [] (indexer.at = "returned" => (indexer.cancelled /\ indexer.err = "nil"))
    /\ [] (indexer.err \in {"pending", "nil"})


(***************************************************************************)
(* Specification SpecIndexLoop: getUpdatedAts and the loop of indexInstall *)
(* over the issues listed for a repository (indexer.go:98-154, 216-250),   *)
(* pass after pass over one table.  The issues are given by their id and   *)
(* updated_at; a row of the table has the id, the updated_at and the       *)
(* inserted_at of its insert, and the table is kept in the order of the    *)
(* inserts.  An issue is updated between passes.                           *)
(***************************************************************************)
MaxRows == 4           \* most rows the table is let grow to
MaxUpdatedAt == 2      \* latest updated_at of an issue

IssueIDs == {1, 2}

InitIndexLoop ==
    /\ indexer = [at |-> "idle", issues |-> [id \in IssueIDs |-> 1], table |-> << >>,
                  cachedIssues |-> [id \in IssueIDs |-> 0], todo |-> << >>,
                  passes |-> 0, passErr |-> "none", skipped |-> {}]
    /\ InferUnused
    /\ CachesUnused
    /\ hook = NoHook
    /\ search = NoSearch
    /\ batch = NoBatch
    /\ paging = NoPaging

\* faulty variant: one partition for each id
partitionKey_ByID(row) == row.id

\* PARTITION BY inserted_at, id
partitionKey(row) == <<row.inserted_at, row.id>>

\* ROW_NUMBER() OVER (PARTITION BY ... ORDER BY inserted_at DESC)
rowNumber(table, r) ==
    1 + Cardinality({ q \in DOMAIN table :
                        /\ partitionKey(table[q]) = partitionKey(table[r])
                        /\ table[q].inserted_at > table[r].inserted_at })

\* the rows the query returns: WHERE rn = 1 ORDER BY inserted_at DESC, over
\* a table kept by ascending inserted_at
rankedRows(table) ==
    SelectSeq(Reverse([r \in DOMAIN table |-> [row |-> table[r], rn |-> rowNumber(table, r)]]),
              LAMBDA x : x.rn = 1)

\* issues[i.ID] = i.UpdatedAt for each row of the iterator in turn: the map
\* keeps the updated_at of the last row read for an id, 0 for an id not read
getUpdatedAts(table) ==
    [id \in IssueIDs |->
        IF \E j \in DOMAIN rankedRows(table) : rankedRows(table)[j].row.id = id
        THEN rankedRows(table)[
                 CHOOSE j \in DOMAIN rankedRows(table) :
                    /\ rankedRows(table)[j].row.id = id
                    /\ \A k \in DOMAIN rankedRows(table) :
                          rankedRows(table)[k].row.id = id => k <= j ].row.updated_at
        ELSE 0]

\* the ids in the order the repository lists them
IDList == <<1, 2>>

\* a pass starts: cachedIssues is read and the issues are listed
LoopGetUpdatedAts ==
    /\ indexer.at = "idle"
    /\ indexer.passes < MaxPasses
    /\ indexer' = [indexer EXCEPT !.at = "loop",
                                  !.cachedIssues = getUpdatedAts(indexer.table),
                                  !.todo = IDList,
                                  !.passes = @ + 1,
                                  !.passErr = "none",
                                  !.skipped = {}]
    /\ UNCHANGED <<inferVars, cacheVars, hook, search, batch, paging>>

\* if uat, ok := cachedIssues[issue.GetID()]; ok && issue.UpdatedAt.Time.Equal(uat)
skipIssue(cachedIssues, id, updatedAt) ==
    cachedIssues[id] # 0 /\ updatedAt = cachedIssues[id]

\* the pass after the issue at the head of todo
nextIssue(ix) ==
    IF Len(ix.todo) = 1 THEN [ix EXCEPT !.todo = << >>, !.at = "idle"]
    ELSE [ix EXCEPT !.todo = Tail(@)]

\* one pass of the loop over the issues: the issue is skipped, or embedded
\* and put into the table; a failing embedding or put ends the pass
LoopIssue ==
    /\ indexer.at = "loop"
    /\ LET id == Head(indexer.todo)
       IN  IF skipIssue(indexer.cachedIssues, id, indexer.issues[id])
           THEN indexer' = nextIssue([indexer EXCEPT !.skipped = @ \cup {id}])
           ELSE \/ indexer' = [indexer EXCEPT !.at = "idle", !.todo = << >>,
                                              !.passErr = "embed issue"]
                \/ indexer' = [indexer EXCEPT !.at = "idle", !.todo = << >>,
                                              !.passErr = "insert issue"]
                \/ /\ Len(indexer.table) < MaxRows
                   /\ indexer' = nextIssue(
                         [indexer EXCEPT !.table =
                             Append(@, [id |-> id, updated_at |-> indexer.issues[id],
                                        inserted_at |-> Len(indexer.table) + 1])])
    /\ UNCHANGED <<inferVars, cacheVars, hook, search, batch, paging>>

\* an issue is updated on GitHub between two passes
LoopIssueUpdated ==
    /\ indexer.at = "idle"
    /\ \E id \in IssueIDs :
         /\ indexer.issues[id] < MaxUpdatedAt
         /\ indexer' = [indexer EXCEPT !.issues[id] = @ + 1]
    /\ UNCHANGED <<inferVars, cacheVars, hook, search, batch, paging>>

NextIndexLoop ==
    \/ LoopGetUpdatedAts
    \/ LoopIssue
    \/ LoopIssueUpdated

SpecIndexLoop == InitIndexLoop /\ [][NextIndexLoop]_vars

\* the rows of the table for the id
RowsOf(id) == { r \in DOMAIN indexer.table : indexer.table[r].id = id }

\* the most recently inserted row for the id has the issue's updated_at
LatestRowCurrent(id) ==
    /\ RowsOf(id) # {}
    /\ \A r \in RowsOf(id) :
          (\A q \in RowsOf(id) : q <= r)
             => indexer.table[r].updated_at = indexer.issues[id]

C28_NoDuplicateOfSingleRow ==
    [][ ( /\ Len(indexer'.table) > Len(indexer.table)
          /\ Cardinality(RowsOf(indexer'.table[Len(indexer'.table)].id)) <= 1 )
          => ~ LatestRowCurrent(indexer'.table[Len(indexer'.table)].id) ]_vars

====
